---- MODULE Spec2Model ----
(***************************************************************************)
(* portmon: kernel probe tables -> Collector -> Aggregator -> Store, with  *)
(* the IPC query branch and the daemon's shutdown path.                    *)
(*                                                                         *)
(* Time is wall-clock milliseconds since the daemon's first instant; the   *)
(* local time zone is taken to be aligned with the epoch, so that an hour  *)
(* bucket never straddles two local dates.  A date "YYYY-MM-DD" is held as *)
(* its day number: zero-padded ISO dates compare as strings exactly as     *)
(* their day numbers compare as integers.                                  *)
(***************************************************************************)
EXTENDS Integers, FiniteSets, Sequences, TLC

(* ---------------------------------------------------------------------- *)
(* Bounds of the model                                                     *)
(* ---------------------------------------------------------------------- *)
\* number of hook invocations explored
MaxEvents == 2
\* number of collector ticks (clock advances) explored
MaxTicks == 3
\* number of ClearPortStats calls explored
MaxClears == 1
\* number of IPC requests explored
MaxRequests == 1
\* number of store statements that fail
MaxFailures == 1
\* number of request lines read, all connections together
MaxLines == 3
\* number of DeleteOldData calls explored
MaxCleanups == 1
\* number of connections the listener hands out
MaxAccepts == 2
\* the largest cycle day a configuration is explored with
MaxCycleDay == 29
\* the last year a caller's reference is advanced in
MaxYear == 2024
\* the longest range GetLastNDays is asked for, days
MaxN == 33
\* width of the unsigned counters, scaled down from 64 bits
CounterBits == 16
\* retention_days of the configuration (validated to 1..365)
RetentionDays == 1
\* hook invocations followed one instruction at a time
MaxProbeEvents == 3
\* Loader.AddPort / Loader.RemovePort calls while the probe is followed
MaxPortOps == 3
\* max_entries of target_ports and of port_stats_map (64 each in probe.c)
\* and of conn_stats_map (10240 in probe.c), scaled down
TargetMaxEntries == 2
PortMaxEntries == 2
ConnMaxEntries == 1

\* byte counts carried by one tcp_sendmsg / one tcp_cleanup_rbuf invocation
SendSizes == {1500}
RecvSizes == {1000, 2000}
\* the same while the query surface is explored
QueryRecvSizes == {3000}
\* the same while store failures and retention are explored
StoreRecvSizes == {1000}
\* time between two collector samples: one second (ten poll intervals),
\* one hour, one day
Steps == {1000, 3600000, 86400000}
\* the same while the query surface is explored: one second, one day
QuerySteps == {1000, 86400000}
\* the same while store failures and retention are explored
StoreSteps == {1000, 86400000}
\* the same while counter resets are explored
ResetSteps == {1000}
\* the same while the shutdown path is explored
ShutdownSteps == {1000}

\* ports given to the daemon at start
ConfigPorts == {5000}
\* the same as the list the configuration holds them in
ConfigList == <<5000>>
\* the handleClient goroutines: one per connection
Workers == {1, 2}
\* the CPUs a hook can run on at the same time
Cpus == {1, 2}
\* the ports add_port can name while the probe is followed: one more than
\* target_ports holds
ProbePorts == {5000 + i : i \in 0..TargetMaxEntries}
\* the sockets of one monitored port: one more than conn_stats_map holds
ProbeKeys ==
    { [saddr |-> 1, daddr |-> 2, sport |-> 5000, dport |-> 40000 + i] :
        i \in 0..ConnMaxEntries }
\* the sockets while ports come and go: a client of each port, a socket
\* between two ports, one whose remote end is a port, one with no port
RowKeys ==
    { [saddr |-> 1, daddr |-> 2, sport |-> p, dport |-> 40000] : p \in ProbePorts }
    \cup { [saddr |-> 1, daddr |-> 2, sport |-> 5000, dport |-> 5001],
           [saddr |-> 1, daddr |-> 2, sport |-> 40000, dport |-> 5000],
           [saddr |-> 1, daddr |-> 2, sport |-> 40000, dport |-> 40001] }

\* the 4-tuples of the sockets that produce traffic
ConnKeys == { [saddr |-> 1, daddr |-> 2, sport |-> 5000, dport |-> 40000] }

\* time.Time zero value (IsZero)
ZeroTime == 0 - 1

Mod == 2 ^ CounterBits

HourMs == 3600000
DayMs == 86400000
\* the aggregator's persist interval, ms
PersistInterval == 60000

(* ---------------------------------------------------------------------- *)
(* State                                                                   *)
(* ---------------------------------------------------------------------- *)
VARIABLES
    now,            \* wall clock, ms
    ticks,          \* collector ticks taken so far
    events,         \* hook invocations so far
    clears,         \* ClearPortStats calls so far
    failures,       \* store statements that have failed so far
    \* kernel tables
    targetPorts,    \* target_ports: set of monitored ports
    portStatsMap,   \* port_stats_map: port -> pm_port_stats
    connStatsMap,   \* conn_stats_map: keys present
    \* Collector
    lastStats,      \* Collector.lastStats: port -> raw counters
    lastTime,       \* Collector.lastTime (ZeroTime = never sampled)
    rates,          \* Collector.rates: port -> types.PortStats
    \* Aggregator
    lastPersist,    \* Aggregator.lastPersist: port -> persistedStats
    peakRates,      \* Aggregator.peakRates: port -> peakRateTracker
    \* Store
    hourly,         \* hourly_stats: <<port, timestamp>> -> row
    daily,          \* daily_stats: <<port, date>> -> row
    \* IPC
    requests,       \* requests handled so far
    resp,           \* the response written last
    \* Daemon lifecycle
    cancelled,      \* ctx.Done() is closed
    mainPc,         \* position of Daemon.Run
    aggPc,          \* position of Aggregator.Run
    colPc,          \* position of Collector.Run
    retPc,          \* position of Daemon.runRetentionCleanup
    \* observations of the run (history, not program state)
    lastPass,       \* port -> what the latest persist pass computed for it
                    \*         (t: instant of the latest pass that did not skip it)
    sumDelta,       \* <<port, timestamp>> -> rx deltas computed in that hour
    lossy,          \* hourly keys hit by a failed upsert or a retention delete
    seenPeak,       \* <<port, date>> -> largest floored rx_rate published, and when
    \* Daemon configuration
    configPorts,    \* Server.config.Ports: the monitored-ports list
    \* IPC workers (one handleClient goroutine per connection)
    lines,          \* request lines read so far, all connections
    wpc,            \* worker -> position in handleClient
    wline,          \* worker -> the line scanned last
    wlocal,         \* worker -> the slice it is about to store in config.Ports
    read,           \* worker -> the lines read on its connection, in order
    written,        \* worker -> the responses written on its connection, in order
    \* retention job
    cleanups,       \* DeleteOldData calls so far
    \* one call of GetBillingCycleDates
    billingPc,      \* "idle", "called", "returned"
    cycleDay,       \* its cycleDay argument
    reference,      \* its reference argument
    cycle,          \* its result: start and end
    \* one call of GetLastNDays (with the same reference)
    nDays,          \* its n argument
    lastN,          \* its result: start and end
    \* portmond's runDaemon
    startPc,        \* "invoked", "refused", "run" (daemon.Run called)
    configPath,     \* --config given
    flagPorts,      \* --port values
    flagRetentionDays, \* --retention-days value, 0 when the flag is not given
    fileLoaded,     \* config.Load returned no error
    cfg,            \* the configuration runDaemon works on
    \* the probe, one instruction at a time
    hook,           \* cpu -> the hook invocation running on it
    connRows,       \* conn_stats_map: key -> pm_conn_stats
    clock,          \* what bpf_ktime_get_ns returns next
    portOps,        \* Loader.AddPort / Loader.RemovePort calls so far
    \* observations of the probe (history, not program state)
    credited,       \* port -> sizes and number of the events added to its row
    inserted,       \* port -> keys put into conn_stats_map as new, for that target
    \* the collector's sample objects
    heap,           \* the *types.PortStats objects still referenced:
                    \*   reference -> [tick: the collect that wrote it, val]
    ratesRef,       \* Collector.rates: port -> reference
    reader,         \* "worker": handleGetRealtimeStats; "aggregator": persist
    \* the IPC server's sockets
    listener,       \* Server.listener: "open" or "closed"
    clients,        \* Server.clients: [made: the map is not nil, conns: its keys]
    accPc,          \* Serve's loop: "accept", "register", "returned", "panic"
    accConn,        \* the connection Accept returned, 0 when none is pending
    accepts,        \* connections accepted so far
    openConns,      \* the accepted connections whose descriptor is open
    handlers,       \* the connections whose handleClient goroutine runs
    watchPc,        \* the goroutine Serve starts: "waiting", "done"
    \* persist passes between their read of the snapshot and their lock
    pass,           \* caller -> [busy, allStats, now]: what the call has read
    maxRead         \* port -> the largest rx_bytes a pass has read (history)

boundVars == <<ticks, events, clears, failures>>
kernelVars == <<targetPorts, portStatsMap, connStatsMap>>
collectorVars == <<lastStats, lastTime, rates>>
aggVars == <<lastPersist, peakRates>>
storeVars == <<hourly, daily>>
ipcVars == <<requests, resp>>
lifeVars == <<cancelled, mainPc, aggPc, colPc, retPc>>
obsVars == <<lastPass, sumDelta, lossy, seenPeak>>
workerVars == <<lines, wpc, wline, wlocal, read, written>>
billingVars == <<billingPc, cycleDay, reference, cycle, nDays, lastN>>
startVars == <<startPc, configPath, flagPorts, flagRetentionDays, fileLoaded, cfg>>
\* what the probe, the collector, the aggregator and the lifecycle leave alone
probeVars == <<hook, connRows, clock, portOps, credited, inserted>>
\* the user-space state the probe never touches
userVars == <<configPorts, workerVars, billingVars, startVars>>
snapVars == <<heap, ratesRef, reader>>
closeVars == <<listener, clients, accPc, accConn, accepts, openConns, handlers, watchPc>>
passVars == <<pass, maxRead>>
serverVars == <<configPorts, workerVars, billingVars, startVars, probeVars, snapVars, closeVars, passVars>>
vars == <<now, boundVars, kernelVars, collectorVars, aggVars, storeVars,
          ipcVars, lifeVars, obsVars, serverVars, cleanups>>

EmptyMap == [k \in {} |-> 0]

\* m with key k bound to v (insert or overwrite)
Put(m, k, v) == [x \in (DOMAIN m) \cup {k} |-> IF x = k THEN v ELSE m[x]]

Max(a, b) == IF a > b THEN a ELSE b

ZeroPortStats ==
    [rx_bytes |-> 0, tx_bytes |-> 0, rx_packets |-> 0, tx_packets |-> 0,
     connections |-> 0]

\* the process is alive: main has not returned from Daemon.Run
Alive == mainPc # "exited"
\* Loader.objs # nil
LoaderOpen == mainPc \in {"waiting", "serverClosed"}
\* the database handle is open
DbOpen == mainPc \in {"waiting", "serverClosed", "loaderClosed"}

(* ---------------------------------------------------------------------- *)
(* Kernel probe                                                            *)
(* ---------------------------------------------------------------------- *)
is_target_port(port) == port \in targetPorts

\* selection policy of both hooks: sport first, then dport, else drop
Target(ck) ==
    IF is_target_port(ck.sport) THEN ck.sport
    ELSE IF is_target_port(ck.dport) THEN ck.dport
    ELSE 0

\* get_port_stats: the row of the port, created zeroed when absent
get_port_stats(m, port) == IF port \in DOMAIN m THEN m[port] ELSE ZeroPortStats

\* trace_tcp_sendmsg: one send of `size` bytes on the socket ck
trace_tcp_sendmsg(ck, size) ==
    /\ LoaderOpen
    /\ events < MaxEvents
    /\ Target(ck) # 0
    /\ LET target == Target(ck)
           ps == get_port_stats(portStatsMap, target)
           isNew == ck \notin connStatsMap
       IN /\ portStatsMap' = Put(portStatsMap, target,
                 [ps EXCEPT !.tx_bytes = (@ + size) % Mod,
                            !.tx_packets = (@ + 1) % Mod,
                            !.connections = IF isNew THEN (@ + 1) % Mod ELSE @])
          /\ connStatsMap' = connStatsMap \cup {ck}
    /\ events' = events + 1
    /\ UNCHANGED <<serverVars, cleanups, now, ticks, clears, failures, targetPorts, collectorVars,
                   aggVars, storeVars, ipcVars, lifeVars, obsVars>>

\* trace_tcp_cleanup_rbuf: one receive drain of `copied` bytes on the socket ck
trace_tcp_cleanup_rbuf(ck, copied) ==
    /\ LoaderOpen
    /\ events < MaxEvents
    /\ Target(ck) # 0
    /\ LET target == Target(ck)
           ps == get_port_stats(portStatsMap, target)
           isNew == ck \notin connStatsMap
       IN /\ portStatsMap' = Put(portStatsMap, target,
                 [ps EXCEPT !.rx_bytes = (@ + copied) % Mod,
                            !.rx_packets = (@ + 1) % Mod,
                            !.connections = IF isNew THEN (@ + 1) % Mod ELSE @])
          /\ connStatsMap' = connStatsMap \cup {ck}
    /\ events' = events + 1
    /\ UNCHANGED <<serverVars, cleanups, now, ticks, clears, failures, targetPorts, collectorVars,
                   aggVars, storeVars, ipcVars, lifeVars, obsVars>>

(* ---------------------------------------------------------------------- *)
(* Kernel probe, one instruction at a time                                 *)
(* ---------------------------------------------------------------------- *)
\* no socket
NoKey == [saddr |-> 0, daddr |-> 0, sport |-> 0, dport |-> 0]

\* a CPU that runs no hook.  ps, cs: the pointers are not NULL; elem: the
\* element cs points to; rows: the port_stats_map rows this invocation has
\* added to; sportHit, dportHit: what is_target_port returned; psMiss: the
\* first lookup of get_port_stats returned NULL; insertFailed: the update of
\* conn_stats_map did not put the key
IdleHook ==
    [pc |-> "idle", kind |-> "send", ck |-> NoKey, size |-> 0, target |-> 0,
     ps |-> FALSE, now |-> 0, cs |-> FALSE, elem |-> 0, rows |-> {},
     sportHit |-> FALSE, dportHit |-> FALSE, psMiss |-> FALSE,
     insertFailed |-> FALSE]

ZeroCredit == [rx_bytes |-> 0, tx_bytes |-> 0, rx_packets |-> 0, tx_packets |-> 0]

\* bpf_map_update_elem(..., BPF_ANY) on a hash map of cap entries: a present
\* key is overwritten, an absent one is added unless the map is full
update_any(m, k, v, cap) ==
    IF k \in DOMAIN m THEN Put(m, k, v)
    ELSE IF Cardinality(DOMAIN m) >= cap THEN m
    ELSE Put(m, k, v)

\* an insert-if-absent that overwrites a present key
update_noexist_Overwrite(m, k, v, cap) ==
    IF k \in DOMAIN m THEN Put(m, k, v)
    ELSE IF Cardinality(DOMAIN m) >= cap THEN m
    ELSE Put(m, k, v)

\* bpf_map_update_elem(..., BPF_NOEXIST): a present key is left alone
\* (EEXIST), an absent one is added unless the map is full (E2BIG)
update_noexist(m, k, v, cap) ==
    IF k \in DOMAIN m THEN m
    ELSE IF Cardinality(DOMAIN m) >= cap THEN m
    ELSE Put(m, k, v)

\* __sync_fetch_and_add on a __u64
sync_fetch_and_add(v, d) == (v + d) % Mod

probeFrame == <<now, ticks, clears, failures, collectorVars, aggVars, storeVars,
                ipcVars, lifeVars, obsVars, userVars, snapVars, closeVars, passVars, cleanups>>

\* entry of trace_tcp_sendmsg ("send") or trace_tcp_cleanup_rbuf ("recv") on
\* CPU c, up to is_target_port(sport); max: the invocations followed
hook_entry(c, kind, ck, size, max) ==
    /\ LoaderOpen
    /\ events < max
    /\ hook[c].pc \in {"idle", "returned"}
    /\ size > 0
    /\ events' = events + 1
    /\ hook' = [hook EXCEPT ![c] =
                   [IdleHook EXCEPT !.kind = kind, !.ck = ck, !.size = size,
                       !.sportHit = is_target_port(ck.sport),
                       !.target = IF is_target_port(ck.sport) THEN ck.sport ELSE 0,
                       !.pc = IF is_target_port(ck.sport)
                              THEN "get_port_stats" ELSE "dport"]]
    /\ UNCHANGED <<probeFrame, kernelVars, connRows, clock, portOps, credited, inserted>>

\* else if (is_target_port(dport)) ... else return 0
select_dport(c) ==
    /\ hook[c].pc = "dport"
    /\ hook' = [hook EXCEPT ![c].dportHit = is_target_port(hook[c].ck.dport),
                            ![c].target = IF is_target_port(hook[c].ck.dport)
                                          THEN hook[c].ck.dport ELSE 0,
                            ![c].pc = IF is_target_port(hook[c].ck.dport)
                                      THEN "get_port_stats" ELSE "returned"]
    /\ UNCHANGED <<probeFrame, events, kernelVars, connRows, clock, portOps, credited, inserted>>

\* get_port_stats: the first bpf_map_lookup_elem
ps_lookup(c) ==
    /\ hook[c].pc = "get_port_stats"
    /\ hook' = [hook EXCEPT ![c].ps = hook[c].target \in DOMAIN portStatsMap,
                            ![c].psMiss = hook[c].target \notin DOMAIN portStatsMap,
                            ![c].pc = IF hook[c].target \in DOMAIN portStatsMap
                                      THEN "add_bytes" ELSE "ps_update"]
    /\ UNCHANGED <<probeFrame, events, kernelVars, connRows, clock, portOps, credited, inserted>>

\* get_port_stats: bpf_map_update_elem(&port_stats_map, &port, &zero, BPF_NOEXIST)
ps_update(c) ==
    /\ hook[c].pc = "ps_update"
    /\ portStatsMap' = update_noexist(portStatsMap, hook[c].target, ZeroPortStats,
                                      PortMaxEntries)
    /\ hook' = [hook EXCEPT ![c].pc = "ps_relookup"]
    /\ UNCHANGED <<probeFrame, events, targetPorts, connStatsMap, connRows, clock,
                   portOps, credited, inserted>>

\* get_port_stats: the second bpf_map_lookup_elem
ps_relookup(c) ==
    /\ hook[c].pc = "ps_relookup"
    /\ hook' = [hook EXCEPT ![c].ps = hook[c].target \in DOMAIN portStatsMap,
                            ![c].pc = "add_bytes"]
    /\ UNCHANGED <<probeFrame, events, kernelVars, connRows, clock, portOps, credited, inserted>>

\* if (ps) __sync_fetch_and_add(&ps->tx_bytes, size)   (rx_bytes, copied)
add_bytes(c) ==
    /\ hook[c].pc = "add_bytes"
    /\ LET h == hook[c]
       IN IF h.ps
          THEN /\ portStatsMap' =
                    [portStatsMap EXCEPT ![h.target] =
                        IF h.kind = "send"
                        THEN [@ EXCEPT !.tx_bytes = sync_fetch_and_add(@, h.size)]
                        ELSE [@ EXCEPT !.rx_bytes = sync_fetch_and_add(@, h.size)]]
               /\ credited' =
                    [credited EXCEPT ![h.target] =
                        IF h.kind = "send"
                        THEN [@ EXCEPT !.tx_bytes = (@ + h.size) % Mod]
                        ELSE [@ EXCEPT !.rx_bytes = (@ + h.size) % Mod]]
               /\ hook' = [hook EXCEPT ![c].pc = "add_packets",
                                       ![c].rows = @ \cup {h.target}]
          ELSE /\ hook' = [hook EXCEPT ![c].pc = "ktime"]
               /\ UNCHANGED <<portStatsMap, credited>>
    /\ UNCHANGED <<probeFrame, events, targetPorts, connStatsMap, connRows, clock,
                   portOps, inserted>>

\* __sync_fetch_and_add(&ps->tx_packets, 1)   (rx_packets)
add_packets(c) ==
    /\ hook[c].pc = "add_packets"
    /\ LET h == hook[c]
       IN /\ portStatsMap' =
               [portStatsMap EXCEPT ![h.target] =
                   IF h.kind = "send"
                   THEN [@ EXCEPT !.tx_packets = sync_fetch_and_add(@, 1)]
                   ELSE [@ EXCEPT !.rx_packets = sync_fetch_and_add(@, 1)]]
          /\ credited' =
               [credited EXCEPT ![h.target] =
                   IF h.kind = "send"
                   THEN [@ EXCEPT !.tx_packets = (@ + 1) % Mod]
                   ELSE [@ EXCEPT !.rx_packets = (@ + 1) % Mod]]
    /\ hook' = [hook EXCEPT ![c].pc = "ktime"]
    /\ UNCHANGED <<probeFrame, events, targetPorts, connStatsMap, connRows, clock,
                   portOps, inserted>>

\* __u64 now = bpf_ktime_get_ns(): two reads never return the same instant
ktime_get_ns(c) ==
    /\ hook[c].pc = "ktime"
    /\ hook' = [hook EXCEPT ![c].now = clock, ![c].pc = "cs_lookup"]
    /\ clock' = clock + 1
    /\ UNCHANGED <<probeFrame, events, kernelVars, connRows, portOps, credited, inserted>>

\* cs = bpf_map_lookup_elem(&conn_stats_map, &ck): the element is known by
\* the instant it was inserted at
cs_lookup(c) ==
    /\ hook[c].pc = "cs_lookup"
    /\ LET hit == hook[c].ck \in DOMAIN connRows
       IN hook' = [hook EXCEPT ![c].cs = hit,
                       ![c].elem = IF hit THEN connRows[hook[c].ck].start_ns ELSE 0,
                       ![c].pc = IF hit THEN "cs_add" ELSE "cs_update"]
    /\ UNCHANGED <<probeFrame, events, kernelVars, connRows, clock, portOps, credited, inserted>>

\* cs still points into the map: the element has not been replaced by an
\* update of the same key since the lookup
Current(h) ==
    h.ck \in DOMAIN connRows /\ connRows[h.ck].start_ns = h.elem

\* where a write through cs can go: into the row, or, when the element has
\* been replaced, also into the element that is no longer the row
Lands(h) == IF Current(h) THEN {TRUE} ELSE BOOLEAN

\* __sync_fetch_and_add(&cs->tx_bytes, size)   (rx_bytes, copied)
cs_add(c) ==
    /\ hook[c].pc = "cs_add"
    /\ LET h == hook[c]
       IN \E lands \in Lands(h) :
            connRows' =
               IF lands
               THEN [connRows EXCEPT ![h.ck] =
                       IF h.kind = "send"
                       THEN [@ EXCEPT !.tx_bytes = sync_fetch_and_add(@, h.size)]
                       ELSE [@ EXCEPT !.rx_bytes = sync_fetch_and_add(@, h.size)]]
               ELSE connRows
    /\ hook' = [hook EXCEPT ![c].pc = "cs_store"]
    /\ UNCHANGED <<probeFrame, events, kernelVars, clock, portOps, credited, inserted>>

\* cs->last_update_ns = now
cs_store(c) ==
    /\ hook[c].pc = "cs_store"
    /\ LET h == hook[c]
       IN \E lands \in Lands(h) :
            connRows' = IF lands
                        THEN [connRows EXCEPT ![h.ck].last_update_ns = h.now]
                        ELSE connRows
    /\ hook' = [hook EXCEPT ![c].pc = "returned"]
    /\ UNCHANGED <<probeFrame, events, kernelVars, clock, portOps, credited, inserted>>

\* the row of a connection first seen by a send (by a receive)
new_cs(h) ==
    [rx_bytes |-> IF h.kind = "recv" THEN h.size ELSE 0,
     tx_bytes |-> IF h.kind = "send" THEN h.size ELSE 0,
     start_ns |-> h.now, last_update_ns |-> h.now]

\* bpf_map_update_elem(&conn_stats_map, &ck, &new_cs, BPF_ANY); its result
\* is not looked at
cs_update(c) ==
    /\ hook[c].pc = "cs_update"
    /\ LET h == hook[c]
           m == update_any(connRows, h.ck, new_cs(h), ConnMaxEntries)
       IN /\ connRows' = m
          /\ connStatsMap' = DOMAIN m
          /\ inserted' = IF h.ck \notin DOMAIN connRows /\ h.ck \in DOMAIN m
                             /\ h.target \in DOMAIN inserted
                         THEN [inserted EXCEPT ![h.target] = @ \cup {h.ck}]
                         ELSE inserted
          /\ hook' = [hook EXCEPT ![c].insertFailed = h.ck \notin DOMAIN m,
                                  ![c].pc = IF h.ps THEN "add_connections"
                                            ELSE "returned"]
    /\ UNCHANGED <<probeFrame, events, targetPorts, portStatsMap, clock, portOps,
                   credited>>

\* if (ps) __sync_fetch_and_add(&ps->connections, 1)
add_connections(c) ==
    /\ hook[c].pc = "add_connections"
    /\ portStatsMap' = [portStatsMap EXCEPT ![hook[c].target].connections =
                           sync_fetch_and_add(@, 1)]
    /\ hook' = [hook EXCEPT ![c].pc = "returned"]
    /\ UNCHANGED <<probeFrame, events, targetPorts, connStatsMap, connRows, clock,
                   portOps, credited, inserted>>

\* one instruction of a hook on some CPU
hook_step ==
    \E c \in DOMAIN hook :
        \/ select_dport(c)
        \/ ps_lookup(c)
        \/ ps_update(c)
        \/ ps_relookup(c)
        \/ add_bytes(c)
        \/ add_packets(c)
        \/ ktime_get_ns(c)
        \/ cs_lookup(c)
        \/ cs_add(c)
        \/ cs_store(c)
        \/ cs_update(c)
        \/ add_connections(c)

(* ---------------------------------------------------------------------- *)
(* Loader                                                                  *)
(* ---------------------------------------------------------------------- *)
\* Loader.ClearPortStats: overwrite the row of the port with zeroes
ClearPortStats(port) ==
    /\ LoaderOpen
    /\ clears < MaxClears
    /\ portStatsMap' = Put(portStatsMap, port, ZeroPortStats)
    /\ clears' = clears + 1
    /\ UNCHANGED <<serverVars, cleanups, now, ticks, events, failures, targetPorts, connStatsMap,
                   collectorVars, aggVars, storeVars, ipcVars, lifeVars, obsVars>>

\* Loader.CountActiveConnections: per port, the conn_stats_map keys whose
\* sport or dport is a monitored port
CountActiveConnections ==
    [p \in targetPorts |->
        Cardinality({ck \in connStatsMap : ck.sport = p})
      + Cardinality({ck \in connStatsMap : ck.dport = p})]

(* ---------------------------------------------------------------------- *)
(* Collector                                                               *)
(* ---------------------------------------------------------------------- *)
\* a rate in bytes/sec held exactly: num bytes in ms milliseconds
ZeroRate == [num |-> 0, ms |-> 1]
Rate(delta, elapsedMs) ==
    IF delta = 0 THEN ZeroRate ELSE [num |-> delta, ms |-> elapsedMs]
\* the integer part of a rate
Floor(r) == (r.num * 1000) \div r.ms

\* a rate taken from the counter itself, not from its growth
RateDelta_Current(current, prev) == current

\* the uint64 subtraction of collect (lines 90-91)
RateDelta(current, prev) == (current - prev) % Mod

\* the sample collect builds for one port
Sample(port, current, activeConns, elapsed, prevStats) ==
    LET hasPrev == elapsed > 0 /\ port \in DOMAIN prevStats
        rxDelta == IF hasPrev
                   THEN RateDelta(current.rx_bytes, prevStats[port].rx_bytes)
                   ELSE 0
        txDelta == IF hasPrev
                   THEN RateDelta(current.tx_bytes, prevStats[port].tx_bytes)
                   ELSE 0
    IN [Port |-> port,
        RxBytes |-> current.rx_bytes,
        TxBytes |-> current.tx_bytes,
        RxPackets |-> current.rx_packets,
        TxPackets |-> current.tx_packets,
        Connections |-> IF port \in DOMAIN activeConns
                        THEN activeConns[port] ELSE 0,
        RxRate |-> Rate(rxDelta, elapsed),
        TxRate |-> Rate(txDelta, elapsed)]

\* Format("2006-01-02"): the local date of an instant
Format(t) == t \div DayMs

\* One firing of the collector's ticker, d ms after the previous sample:
\* Collector.collect at the new instant.
collectBody(d) ==
    /\ Alive
    /\ colPc = "loop"
    /\ ticks < MaxTicks
    /\ ticks' = ticks + 1
    /\ now' = now + d
    /\ IF LoaderOpen
       THEN LET stats == portStatsMap
                activeConns == CountActiveConnections
                elapsed == IF lastTime # ZeroTime THEN now' - lastTime ELSE 0
                newRates == [p \in (DOMAIN rates) \cup (DOMAIN stats) |->
                               IF p \in DOMAIN stats
                               THEN Sample(p, stats[p], activeConns, elapsed, lastStats)
                               ELSE rates[p]]
            IN /\ rates' = newRates
               /\ lastStats' = [p \in (DOMAIN lastStats) \cup (DOMAIN stats) |->
                                  IF p \in DOMAIN stats THEN stats[p] ELSE lastStats[p]]
               /\ lastTime' = now'
               /\ seenPeak' =
                    [k \in (DOMAIN seenPeak) \cup {<<p, Format(now')>> : p \in DOMAIN stats} |->
                        IF k[1] \in DOMAIN stats /\ k[2] = Format(now')
                        THEN LET old == IF k \in DOMAIN seenPeak THEN seenPeak[k]
                                        ELSE [rate |-> 0, at |-> now']
                                 new == Floor(newRates[k[1]].RxRate)
                             IN IF new > old.rate THEN [rate |-> new, at |-> now']
                                ELSE old
                        ELSE seenPeak[k]]
       ELSE UNCHANGED <<collectorVars, seenPeak>>
    /\ UNCHANGED <<cleanups, events, clears, failures, kernelVars, aggVars, storeVars,
                   ipcVars, lifeVars, lastPass, sumDelta, lossy>>

collect(d) ==
    /\ collectBody(d)
    /\ UNCHANGED serverVars

\* Collector.GetAllStats: a copy of the published snapshot
GetAllStats == rates

\* the fields of types.PortStats, in the order handleGetRealtimeStats reads
\* them
SampleFields ==
    <<"Port", "RxBytes", "TxBytes", "RxPackets", "TxPackets", "Connections",
      "RxRate", "TxRate">>

\* the callers of GetStats and of GetAllStats
Readers == {"worker", "aggregator"}

\* the reference of an object that is in nobody's map
NoRef == <<0, 0>>

\* a collect that writes into the object the port already has
NewRef_Reuse(refs, port, tick) ==
    IF port \in DOMAIN refs THEN refs[port] ELSE <<port, tick>>

\* portStats := &types.PortStats{...}: a new object for the port at every
\* collect
NewRef(refs, port, tick) == <<port, tick>>

\* the object behind a reference; &types.PortStats{Port: port} behind NoRef
Deref(ref, port) ==
    IF ref \in DOMAIN heap THEN heap[ref]
    ELSE [tick |-> 0,
          val |-> [Port |-> port, RxBytes |-> 0, TxBytes |-> 0, RxPackets |-> 0,
                   TxPackets |-> 0, Connections |-> 0, RxRate |-> ZeroRate,
                   TxRate |-> ZeroRate]]

\* nobody reads
IdleReader ==
    [pc |-> "idle", port |-> 0, ref |-> NoRef, first |-> Deref(NoRef, 0),
     got |-> << >>, copy |-> EmptyMap]

\* the references a reader holds
Held(rd) == {rd[r].ref : r \in DOMAIN rd} \ {NoRef}

\* Collector.collect with the objects it allocates: c.rates[port] = portStats
\* for every port of the map, under c.mu.Lock; objects nobody references
\* are gone
collectSnapshot(d) ==
    /\ collectBody(d)
    /\ IF LoaderOpen
       THEN LET refs == [p \in DOMAIN rates' |->
                           IF p \in DOMAIN portStatsMap
                           THEN NewRef(ratesRef, p, ticks') ELSE ratesRef[p]]
                fresh == {refs[p] : p \in DOMAIN portStatsMap}
                live == {refs[p] : p \in DOMAIN refs} \cup Held(reader)
            IN /\ ratesRef' = refs
               /\ heap' = [id \in live |->
                             IF id \in fresh
                             THEN [tick |-> ticks', val |-> rates'[id[1]]]
                             ELSE heap[id]]
       ELSE UNCHANGED <<heap, ratesRef>>
    /\ UNCHANGED <<userVars, probeVars, reader, closeVars, passVars>>

snapFrame == <<closeVars, passVars, now, ticks, events, clears, failures, kernelVars, collectorVars,
               aggVars, storeVars, resp, lifeVars, obsVars, userVars, probeVars,
               cleanups>>

\* handleGetRealtimeStats line 169: stats := s.collector.GetStats(params.Port),
\* the pointer of c.rates[port] taken under c.mu.RLock
GetStatsCall(port) ==
    /\ Alive
    /\ requests < MaxRequests
    /\ reader["worker"].pc \in {"idle", "done"}
    /\ requests' = requests + 1
    /\ LET ref == IF port \in DOMAIN ratesRef THEN ratesRef[port] ELSE NoRef
       IN reader' = [reader EXCEPT !["worker"] =
                        [IdleReader EXCEPT !.pc = "reading", !.port = port,
                                           !.ref = ref, !.first = Deref(ref, port)]]
    /\ UNCHANGED <<snapFrame, heap, ratesRef>>

\* handleGetRealtimeStats lines 171-180: the next field is read through the
\* pointer, with no lock held
ReadField ==
    /\ reader["worker"].pc = "reading"
    /\ LET rd == reader["worker"]
           o == Deref(rd.ref, rd.port)
           f == SampleFields[Len(rd.got) + 1]
       IN reader' = [reader EXCEPT !["worker"].got =
                                      Append(@, [tick |-> o.tick, v |-> o.val[f],
                                                 at |-> ticks]),
                                   !["worker"].pc =
                                      IF Len(rd.got) + 1 = Len(SampleFields)
                                      THEN "done" ELSE "reading"]
    /\ UNCHANGED <<snapFrame, requests, heap, ratesRef>>

\* persist line 78: allStats := a.collector.GetAllStats(), a copy of every
\* object made under c.mu.RLock
GetAllStatsCall ==
    /\ Alive
    /\ requests < MaxRequests
    /\ requests' = requests + 1
    /\ reader' = [reader EXCEPT !["aggregator"] =
                     [IdleReader EXCEPT !.pc = "done",
                         !.copy = [p \in DOMAIN ratesRef |-> heap[ratesRef[p]]]]]
    /\ UNCHANGED <<snapFrame, heap, ratesRef>>

(* ---------------------------------------------------------------------- *)
(* Store                                                                   *)
(* ---------------------------------------------------------------------- *)
\* ts.Truncate(time.Hour).Unix(): seconds of the enclosing hour
HourTs(t) == (t \div HourMs) * 3600
\* t.Unix()
Unix(t) == t \div 1000

\* an upsert whose ON CONFLICT clause replaces the counters instead of adding
UpsertHourlyStats_Replace(h, port, ts, d) == Put(h, <<port, HourTs(ts)>>, d)

\* DB.UpsertHourlyStats (statement succeeded): INSERT .. ON CONFLICT DO UPDATE
UpsertHourlyStats(h, port, ts, d) ==
    LET k == <<port, HourTs(ts)>>
    IN IF k \in DOMAIN h
       THEN [h EXCEPT ![k] =
               [rx_bytes |-> @.rx_bytes + d.rx_bytes,
                tx_bytes |-> @.tx_bytes + d.tx_bytes,
                rx_packets |-> @.rx_packets + d.rx_packets,
                tx_packets |-> @.tx_packets + d.tx_packets,
                connections |-> @.connections + d.connections]]
       ELSE Put(h, k, d)

\* an upsert that replaces the counters of an existing row
UpsertDailyStats_Replace(dl, port, date, d, peakRx, peakTx) ==
    Put(dl, <<port, date>>,
        [rx_bytes |-> d.rx_bytes, tx_bytes |-> d.tx_bytes,
         rx_packets |-> d.rx_packets, tx_packets |-> d.tx_packets,
         connections |-> d.connections,
         peak_rx_rate |-> peakRx, peak_tx_rate |-> peakTx])

\* DB.UpsertDailyStats (statement succeeded): counters add, peaks MAX-combine
UpsertDailyStats(dl, port, date, d, peakRx, peakTx) ==
    LET k == <<port, date>>
    IN IF k \in DOMAIN dl
       THEN [dl EXCEPT ![k] =
               [rx_bytes |-> @.rx_bytes + d.rx_bytes,
                tx_bytes |-> @.tx_bytes + d.tx_bytes,
                rx_packets |-> @.rx_packets + d.rx_packets,
                tx_packets |-> @.tx_packets + d.tx_packets,
                connections |-> @.connections + d.connections,
                peak_rx_rate |-> Max(@.peak_rx_rate, peakRx),
                peak_tx_rate |-> Max(@.peak_tx_rate, peakTx)]]
       ELSE Put(dl, k,
               [rx_bytes |-> d.rx_bytes, tx_bytes |-> d.tx_bytes,
                rx_packets |-> d.rx_packets, tx_packets |-> d.tx_packets,
                connections |-> d.connections,
                peak_rx_rate |-> peakRx, peak_tx_rate |-> peakTx])

\* DB.QueryDailyStats: the rows of the port in [startDate, endDate], by date
RECURSIVE SortedDates(_)
SortedDates(S) ==
    IF S = {} THEN << >>
    ELSE LET m == CHOOSE x \in S : \A y \in S : x <= y
         IN <<m>> \o SortedDates(S \ {m})

\* a query whose range leaves out the end date
QueryDailyStats_Exclusive(port, startDate, endDate) ==
    LET dates == {k[2] : k \in {x \in DOMAIN daily :
                     x[1] = port /\ x[2] >= startDate /\ x[2] < endDate}}
        order == SortedDates(dates)
    IN [i \in 1..Len(order) |->
           [Date |-> order[i],
            RxBytes |-> daily[<<port, order[i]>>].rx_bytes,
            TxBytes |-> daily[<<port, order[i]>>].tx_bytes,
            RxPackets |-> daily[<<port, order[i]>>].rx_packets,
            TxPackets |-> daily[<<port, order[i]>>].tx_packets,
            Connections |-> daily[<<port, order[i]>>].connections,
            PeakRxRate |-> daily[<<port, order[i]>>].peak_rx_rate,
            PeakTxRate |-> daily[<<port, order[i]>>].peak_tx_rate]]

QueryDailyStats(port, startDate, endDate) ==
    LET dates == {k[2] : k \in {x \in DOMAIN daily :
                     x[1] = port /\ x[2] >= startDate /\ x[2] <= endDate}}
        order == SortedDates(dates)
    IN [i \in 1..Len(order) |->
           [Date |-> order[i],
            RxBytes |-> daily[<<port, order[i]>>].rx_bytes,
            TxBytes |-> daily[<<port, order[i]>>].tx_bytes,
            RxPackets |-> daily[<<port, order[i]>>].rx_packets,
            TxPackets |-> daily[<<port, order[i]>>].tx_packets,
            Connections |-> daily[<<port, order[i]>>].connections,
            PeakRxRate |-> daily[<<port, order[i]>>].peak_rx_rate,
            PeakTxRate |-> daily[<<port, order[i]>>].peak_tx_rate]]

\* a cutoff that counts the retention in hours
Cutoff_Hours(t, retentionDays) == t - retentionDays * HourMs

\* time.Now().AddDate(0, 0, -retentionDays)
Cutoff(t, retentionDays) == t - retentionDays * DayMs

\* DB.DeleteOldData(retentionDays), called by Daemon.runRetentionCleanup at
\* start and on its 24 h ticker.  hOK / dOK: the DELETE on hourly_stats /
\* daily_stats succeeded; a failed first DELETE returns before the second.
DeleteOldData(retentionDays, hOK, dOK) ==
    /\ Alive
    /\ retPc = "loop"
    /\ cleanups < MaxCleanups
    /\ cleanups' = cleanups + 1
    /\ ~hOK => ~dOK
    /\ ~DbOpen => ~hOK
    /\ (DbOpen /\ ~dOK) => failures < MaxFailures
    /\ LET cutoff == Cutoff(now, retentionDays)
           cutoffTs == Unix(cutoff)
           cutoffDate == Format(cutoff)
           keepH == {k \in DOMAIN hourly : ~(k[2] < cutoffTs)}
           keepD == {k \in DOMAIN daily : ~(k[2] < cutoffDate)}
       IN /\ hourly' = IF hOK THEN [k \in keepH |-> hourly[k]] ELSE hourly
          /\ daily' = IF dOK THEN [k \in keepD |-> daily[k]] ELSE daily
          /\ lossy' = IF hOK THEN lossy \cup ((DOMAIN hourly) \ keepH) ELSE lossy
    /\ failures' = IF DbOpen /\ ~dOK THEN failures + 1 ELSE failures
    /\ UNCHANGED <<serverVars, now, ticks, events, clears, kernelVars, collectorVars, aggVars,
                   ipcVars, lifeVars, lastPass, sumDelta, seenPeak>>

(* ---------------------------------------------------------------------- *)
(* Aggregator                                                              *)
(* ---------------------------------------------------------------------- *)
\* a delta that subtracts without the regression guard
Delta_Wrapped(cur, last) == (cur - last) % Mod

\* one field of the delta against an existing shadow (persist, lines 90-104)
Delta(cur, last) == IF cur >= last THEN cur - last ELSE 0

\* the five counters of a snapshot, as the shadow keeps them (lines 147-153)
Counters(stats) ==
    [rx_bytes |-> stats.RxBytes, tx_bytes |-> stats.TxBytes,
     rx_packets |-> stats.RxPackets, tx_packets |-> stats.TxPackets,
     connections |-> stats.Connections]

\* a first-sample branch that mixes up two fields
Deltas_FirstSwapped(stats, shadow, port) ==
    IF port \in DOMAIN shadow
    THEN [rx_bytes |-> IF stats.RxBytes >= shadow[port].rx_bytes
                       THEN stats.RxBytes - shadow[port].rx_bytes ELSE 0,
          tx_bytes |-> IF stats.TxBytes >= shadow[port].tx_bytes
                       THEN stats.TxBytes - shadow[port].tx_bytes ELSE 0,
          rx_packets |-> IF stats.RxPackets >= shadow[port].rx_packets
                         THEN stats.RxPackets - shadow[port].rx_packets ELSE 0,
          tx_packets |-> IF stats.TxPackets >= shadow[port].tx_packets
                         THEN stats.TxPackets - shadow[port].tx_packets ELSE 0,
          connections |-> IF stats.Connections >= shadow[port].connections
                          THEN stats.Connections - shadow[port].connections ELSE 0]
    ELSE [rx_bytes |-> stats.RxBytes, tx_bytes |-> stats.RxBytes,
          rx_packets |-> stats.RxPackets, tx_packets |-> stats.TxPackets,
          connections |-> stats.Connections]

\* the delta of one port since the last persist (lines 87-112)
Deltas(stats, shadow, port) ==
    IF port \in DOMAIN shadow
    THEN [rx_bytes |-> Delta(stats.RxBytes, shadow[port].rx_bytes),
          tx_bytes |-> Delta(stats.TxBytes, shadow[port].tx_bytes),
          rx_packets |-> Delta(stats.RxPackets, shadow[port].rx_packets),
          tx_packets |-> Delta(stats.TxPackets, shadow[port].tx_packets),
          connections |-> Delta(stats.Connections, shadow[port].connections)]
    ELSE Counters(stats)

\* a pass that skips no port
Skipped_Never(d) == FALSE

\* "Skip if no change" (line 115)
Skipped(d) == d.rx_bytes = 0 /\ d.tx_bytes = 0

\* uint64(rate): the integer part; a value that does not fit is
\* implementation-dependent (2^63 on amd64, saturated on arm64)
ToUint64(r) == IF Floor(r) < Mod THEN {Floor(r)} ELSE {Mod \div 2, Mod - 1}

\* a tracker that is kept across a change of date
PeakAfter_Inherit(peaks, port, today, rxRate, txRate) ==
    LET peak == IF port \in DOMAIN peaks
                THEN peaks[port]
                ELSE [date |-> today, peakRxRate |-> 0, peakTxRate |-> 0]
    IN [date |-> today,
        peakRxRate |-> IF rxRate > peak.peakRxRate THEN rxRate ELSE peak.peakRxRate,
        peakTxRate |-> IF txRate > peak.peakTxRate THEN txRate ELSE peak.peakTxRate]

\* the peak tracker of a port after lines 125-139
PeakAfter(peaks, port, today, rxRate, txRate) ==
    LET peak == IF port \in DOMAIN peaks /\ peaks[port].date = today
                THEN peaks[port]
                ELSE [date |-> today, peakRxRate |-> 0, peakTxRate |-> 0]
    IN [date |-> today,
        peakRxRate |-> IF rxRate > peak.peakRxRate THEN rxRate ELSE peak.peakRxRate,
        peakTxRate |-> IF txRate > peak.peakTxRate THEN txRate ELSE peak.peakTxRate]

\* the shadow of a port after a pass that did not skip it (lines 146-153)
ShadowAfter(stats) == Counters(stats)

\* what one pass may meet per port: the outcome of the two upserts and the
\* result of the two float-to-integer conversions
Outcome(stats) ==
    [h : BOOLEAN, d : BOOLEAN, rx : ToUint64(stats.RxRate), tx : ToUint64(stats.TxRate)]
Outcomes(allStats) ==
    {oc \in [DOMAIN allStats -> UNION {Outcome(allStats[p]) : p \in DOMAIN allStats}] :
        \A p \in DOMAIN allStats : oc[p] \in Outcome(allStats[p])}

\* Aggregator.persist: one pass over the collector's snapshot.
\* oc[p].h / oc[p].d: the hourly / daily upsert of port p succeeded.
persistPass(allStats, asOf, oc) ==
    LET today == Format(asOf)
        ports == DOMAIN allStats
        delta(p) == Deltas(allStats[p], lastPersist, p)
        done == {p \in ports : ~Skipped(delta(p))}
        peak(p) == PeakAfter(peakRates, p, today, oc[p].rx, oc[p].tx)
        failed == Cardinality({p \in done : ~oc[p].h})
                  + Cardinality({p \in done : ~oc[p].d})
        hkey(p) == <<p, HourTs(asOf)>>
        dkey(p) == <<p, today>>
        hdone == {p \in done : oc[p].h}
        ddone == {p \in done : oc[p].d}
    IN /\ \A p \in ports \ done : oc[p].h /\ oc[p].d
       /\ ~DbOpen => \A p \in done : ~oc[p].h /\ ~oc[p].d
       /\ DbOpen => failures + failed <= MaxFailures
       /\ failures' = IF DbOpen THEN failures + failed ELSE failures
       /\ hourly' = [k \in (DOMAIN hourly) \cup {hkey(p) : p \in hdone} |->
                       IF k[1] \in hdone /\ k = hkey(k[1])
                       THEN UpsertHourlyStats(hourly, k[1], asOf, delta(k[1]))[k]
                       ELSE hourly[k]]
       /\ daily' = [k \in (DOMAIN daily) \cup {dkey(p) : p \in ddone} |->
                       IF k[1] \in ddone /\ k = dkey(k[1])
                       THEN UpsertDailyStats(daily, k[1], today, delta(k[1]),
                                peak(k[1]).peakRxRate, peak(k[1]).peakTxRate)[k]
                       ELSE daily[k]]
       /\ peakRates' = [p \in (DOMAIN peakRates) \cup done |->
                           IF p \in done THEN peak(p) ELSE peakRates[p]]
       /\ lastPersist' = [p \in (DOMAIN lastPersist) \cup done |->
                           IF p \in done THEN ShadowAfter(allStats[p])
                           ELSE lastPersist[p]]
       /\ lastPass' = [p \in (DOMAIN lastPass) \cup ports |->
                         IF p \in ports
                         THEN [t |-> IF p \in done THEN asOf
                                     ELSE IF p \in DOMAIN lastPass THEN lastPass[p].t
                                     ELSE ZeroTime,
                               cur |-> Counters(allStats[p]),
                              hadShadow |-> p \in DOMAIN lastPersist,
                              shadow |-> IF p \in DOMAIN lastPersist
                                         THEN lastPersist[p] ELSE ZeroPortStats,
                              delta |-> delta(p),
                              skipped |-> p \notin done,
                              hOK |-> oc[p].h, dOK |-> oc[p].d]
                         ELSE lastPass[p]]
       /\ sumDelta' = [k \in (DOMAIN sumDelta) \cup {hkey(p) : p \in done} |->
                         IF k[1] \in done /\ k = hkey(k[1])
                         THEN (IF k \in DOMAIN sumDelta THEN sumDelta[k] ELSE 0)
                              + delta(k[1]).rx_bytes
                         ELSE sumDelta[k]]
       /\ lossy' = lossy \cup {hkey(p) : p \in done \ hdone}

\* Aggregator.persist when nothing runs between its reading of the
\* snapshot and of the clock (lines 78-80) and its locked pass
persist(oc) == persistPass(GetAllStats, now, oc)

\* Aggregator.Run, case <-ticker.C
AggTick ==
    /\ Alive
    /\ aggPc = "loop"
    /\ \E oc \in Outcomes(GetAllStats) : persist(oc)
    /\ UNCHANGED <<serverVars, cleanups, now, ticks, events, clears, kernelVars, collectorVars,
                   ipcVars, lifeVars, seenPeak>>

\* Aggregator.Run, case <-ctx.Done(): the final persist, then return
AggFinal ==
    /\ Alive
    /\ aggPc = "loop"
    /\ cancelled
    /\ \E oc \in Outcomes(GetAllStats) : persist(oc)
    /\ aggPc' = "stopped"
    /\ UNCHANGED <<serverVars, cleanups, now, ticks, events, clears, kernelVars, collectorVars,
                   ipcVars, cancelled, mainPc, colPc, retPc, seenPeak>>

(* ---------------------------------------------------------------------- *)
(* Persist passes that overlap                                             *)
(* ---------------------------------------------------------------------- *)
\* the callers of persist: Run's ticker case and Flush
Passes == {"tick", "flush"}

NoPass == [busy |-> FALSE, allStats |-> EmptyMap, now |-> 0]

InitPass ==
    /\ pass = [who \in Passes |-> NoPass]
    /\ maxRead = EmptyMap

passFrame == <<cleanups, ticks, events, clears, kernelVars, collectorVars, ipcVars,
               lifeVars, seenPeak, configPorts, workerVars, billingVars, startVars,
               probeVars, snapVars, closeVars>>

\* persist, lines 78-80: the snapshot and the clock are read before the
\* aggregator's lock is taken
readSnapshot(who) ==
    /\ Alive
    /\ aggPc = "loop"
    /\ ~pass[who].busy
    /\ pass' = [pass EXCEPT ![who] =
                  [busy |-> TRUE, allStats |-> GetAllStats, now |-> now]]
    /\ maxRead' = [p \in (DOMAIN maxRead) \cup (DOMAIN GetAllStats) |->
                     IF p \in DOMAIN GetAllStats
                     THEN Max(IF p \in DOMAIN maxRead THEN maxRead[p] ELSE 0,
                              GetAllStats[p].RxBytes)
                     ELSE maxRead[p]]
    /\ UNCHANGED <<now, failures, aggVars, storeVars, lastPass, sumDelta, lossy,
                   passFrame>>

\* persist, lines 82-158: the pass over what was read, under a.mu
lockedPass(who) ==
    /\ Alive
    /\ pass[who].busy
    /\ \E oc \in Outcomes(pass[who].allStats) :
          persistPass(pass[who].allStats, pass[who].now, oc)
    /\ pass' = [pass EXCEPT ![who] = NoPass]
    /\ UNCHANGED <<now, maxRead, passFrame>>

(* ---------------------------------------------------------------------- *)
(* IPC server                                                              *)
(* ---------------------------------------------------------------------- *)
ErrCodeMethodNotFound == 0 - 32601
ErrCodeInternal == 0 - 32603

\* the methods Server.handleRequest has a case for
Dispatched ==
    {"get_realtime_stats", "get_historical_stats", "get_status",
     "add_port", "remove_port", "list_ports"}

\* the methods the explored clients send
Methods == {"get_historical_stats", "flush_stats"}

successResponse(method, result) == [method |-> method, code |-> 0, result |-> result]
errorResponse(method, code, message) ==
    [method |-> method, code |-> code, result |-> [Message |-> message]]

RECURSIVE SumRx(_, _)
SumRx(rows, i) == IF i = 0 THEN 0 ELSE rows[i].RxBytes + SumRx(rows, i - 1)
RECURSIVE SumTx(_, _)
SumTx(rows, i) == IF i = 0 THEN 0 ELSE rows[i].TxBytes + SumTx(rows, i - 1)
RECURSIVE MaxPeakRx(_, _)
MaxPeakRx(rows, i) ==
    IF i = 0 THEN 0
    ELSE IF rows[i].PeakRxRate > MaxPeakRx(rows, i - 1)
         THEN rows[i].PeakRxRate ELSE MaxPeakRx(rows, i - 1)
RECURSIVE MaxPeakTx(_, _)
MaxPeakTx(rows, i) ==
    IF i = 0 THEN 0
    ELSE IF rows[i].PeakTxRate > MaxPeakTx(rows, i - 1)
         THEN rows[i].PeakTxRate ELSE MaxPeakTx(rows, i - 1)

\* the sum of the two totals (line 226)
TotalBytes(totalRx, totalTx) == totalRx + totalTx

\* Server.handleGetHistoricalStats with decodable params and a successful query
HistoricalStatsResult(port, startDate, endDate) ==
    LET dailyStats == QueryDailyStats(port, startDate, endDate)
        n == Len(dailyStats)
    IN [Port |-> port, StartDate |-> startDate, EndDate |-> endDate,
        TotalRx |-> SumRx(dailyStats, n),
        TotalTx |-> SumTx(dailyStats, n),
        TotalBytes |-> TotalBytes(SumRx(dailyStats, n), SumTx(dailyStats, n)),
        PeakRxRate |-> MaxPeakRx(dailyStats, n),
        PeakTxRate |-> MaxPeakTx(dailyStats, n),
        DailyStats |-> dailyStats]

\* Server.handleRequest: the response to one request
handleRequest(method, port, startDate, endDate, qOK) ==
    IF method = "get_historical_stats"
    THEN IF qOK
         THEN successResponse(method, HistoricalStatsResult(port, startDate, endDate))
         ELSE errorResponse(method, ErrCodeInternal, "query failed")
    ELSE IF method \in Dispatched
         THEN successResponse(method, [Message |-> "handled"])
         ELSE errorResponse(method, ErrCodeMethodNotFound, "method not found")

\* Server.handleClient: one request line read, handled and answered.
\* qOK: the store query of the handler succeeded.
handleClient(method, port, startDate, endDate, qOK) ==
    /\ mainPc = "waiting"
    /\ requests < MaxRequests
    /\ ~qOK => method = "get_historical_stats" /\ failures < MaxFailures
    /\ requests' = requests + 1
    /\ failures' = IF qOK THEN failures ELSE failures + 1
    /\ resp' = handleRequest(method, port, startDate, endDate, qOK)
    /\ UNCHANGED <<serverVars, cleanups, now, ticks, events, clears, kernelVars, collectorVars, aggVars,
                   storeVars, lifeVars, obsVars>>

(* ---------------------------------------------------------------------- *)
(* Daemon lifecycle                                                        *)
(* ---------------------------------------------------------------------- *)
lifeFrame == <<now, boundVars, kernelVars, collectorVars, aggVars, storeVars,
               ipcVars, obsVars, serverVars, cleanups>>

\* SIGINT / SIGTERM: signal.NotifyContext cancels ctx
Cancel ==
    /\ Alive
    /\ ~cancelled
    /\ cancelled' = TRUE
    /\ UNCHANGED <<mainPc, aggPc, colPc, retPc, lifeFrame>>

\* Daemon.Run after <-ctx.Done(): server.Close()
RunServerClose ==
    /\ mainPc = "waiting"
    /\ cancelled
    /\ mainPc' = "serverClosed"
    /\ UNCHANGED <<cancelled, aggPc, colPc, retPc, lifeFrame>>

\* Daemon.Run returning: deferred loader.Close()
RunLoaderClose ==
    /\ mainPc = "serverClosed"
    /\ mainPc' = "loaderClosed"
    /\ UNCHANGED <<cancelled, aggPc, colPc, retPc, lifeFrame>>

\* Daemon.Run returning: deferred db.Close()
RunDbClose ==
    /\ mainPc = "loaderClosed"
    /\ mainPc' = "dbClosed"
    /\ UNCHANGED <<cancelled, aggPc, colPc, retPc, lifeFrame>>

\* Daemon.Run has returned: runDaemon and main return, the process ends
RunReturn ==
    /\ mainPc = "dbClosed"
    /\ mainPc' = "exited"
    /\ UNCHANGED <<cancelled, aggPc, colPc, retPc, lifeFrame>>

\* Collector.Run, case <-ctx.Done()
CollectorStop ==
    /\ Alive
    /\ cancelled
    /\ colPc = "loop"
    /\ colPc' = "stopped"
    /\ UNCHANGED <<cancelled, mainPc, aggPc, retPc, lifeFrame>>

\* Daemon.runRetentionCleanup, case <-ctx.Done()
RetentionStop ==
    /\ Alive
    /\ cancelled
    /\ retPc = "loop"
    /\ retPc' = "stopped"
    /\ UNCHANGED <<cancelled, mainPc, aggPc, colPc, lifeFrame>>

(* ---------------------------------------------------------------------- *)
(* The IPC server's listener and client table                              *)
(* ---------------------------------------------------------------------- *)
Conns == 1..MaxAccepts

\* NewServer and the start of Serve: the table made, the listener open, the
\* watcher goroutine started, no connection yet
InitClose ==
    /\ listener = "open"
    /\ clients = [made |-> TRUE, conns |-> {}]
    /\ accPc = "accept"
    /\ accConn = 0
    /\ accepts = 0
    /\ openConns = {}
    /\ handlers = {}
    /\ watchPc = "waiting"

closeFrame == <<now, boundVars, kernelVars, collectorVars, aggVars, storeVars,
                ipcVars, obsVars, configPorts, workerVars, billingVars, startVars,
                probeVars, snapVars, passVars, cleanups>>

\* listener.Accept() returning a connection
Accept ==
    /\ Alive
    /\ accPc = "accept"
    /\ listener = "open"
    /\ accepts < MaxAccepts
    /\ accepts' = accepts + 1
    /\ accConn' = accepts + 1
    /\ openConns' = openConns \cup {accepts + 1}
    /\ accPc' = "register"
    /\ UNCHANGED <<listener, clients, handlers, watchPc, lifeVars, closeFrame>>

\* listener.Accept() failing with net.ErrClosed: Serve returns nil
AcceptClosed ==
    /\ Alive
    /\ accPc = "accept"
    /\ listener = "closed"
    /\ accPc' = "returned"
    /\ UNCHANGED <<listener, clients, accConn, accepts, openConns, handlers, watchPc,
                   lifeVars, closeFrame>>

\* s.clients[conn] = struct{}{}: the table after the write (a nil map
\* cannot be written)
Store(tbl, conn) == [made |-> tbl.made, conns |-> tbl.conns \cup {conn}]

\* Serve after Accept: s.mu.Lock(); s.clients[conn] = struct{}{};
\* s.mu.Unlock(); go s.handleClient(conn).  The assignment to an entry of a
\* nil map is a run-time panic, which nothing recovers: the process ends
\* and its descriptors with it.
Register ==
    /\ Alive
    /\ accPc = "register"
    /\ IF Store(clients, accConn).made
       THEN /\ clients' = Store(clients, accConn)
            /\ handlers' = handlers \cup {accConn}
            /\ accPc' = "accept"
            /\ UNCHANGED <<openConns, listener, lifeVars>>
       ELSE /\ accPc' = "panic"
            /\ mainPc' = "exited"
            /\ openConns' = {}
            /\ listener' = "closed"
            /\ handlers' = {}
            /\ UNCHANGED <<clients, cancelled, aggPc, colPc, retPc>>
    /\ accConn' = 0
    /\ UNCHANGED <<accepts, watchPc, closeFrame>>

\* handleClient returning (the client hung up, or the connection was
\* closed under the scanner): conn.Close(), delete(s.clients, conn)
handleClientReturn(conn) ==
    /\ Alive
    /\ conn \in handlers
    /\ handlers' = handlers \ {conn}
    /\ openConns' = openConns \ {conn}
    /\ clients' = [clients EXCEPT !.conns = @ \ {conn}]
    /\ UNCHANGED <<listener, accPc, accConn, accepts, watchPc, lifeVars, closeFrame>>

\* Server.Close, under s.mu: every connection of the table closed, the
\* table set to nil, the listener closed
Close ==
    /\ openConns' = openConns \ clients.conns
    /\ clients' = [made |-> FALSE, conns |-> {}]
    /\ listener' = "closed"

\* the goroutine of Serve: <-ctx.Done(); s.Close()
WatcherClose ==
    /\ Alive
    /\ cancelled
    /\ watchPc = "waiting"
    /\ Close
    /\ watchPc' = "done"
    /\ UNCHANGED <<accPc, accConn, accepts, handlers, lifeVars, closeFrame>>

\* Daemon.Run after <-ctx.Done(): server.Close() with its effect on the
\* sockets
DaemonClose ==
    /\ mainPc = "waiting"
    /\ cancelled
    /\ Close
    /\ mainPc' = "serverClosed"
    /\ UNCHANGED <<accPc, accConn, accepts, handlers, watchPc, cancelled, aggPc, colPc,
                   retPc, closeFrame>>

\* Daemon.Run has returned and the process ends: the kernel closes what is
\* still open
ProcessExit ==
    /\ mainPc = "dbClosed"
    /\ mainPc' = "exited"
    /\ openConns' = {}
    /\ listener' = "closed"
    /\ handlers' = {}
    /\ UNCHANGED <<clients, accPc, accConn, accepts, watchPc, cancelled, aggPc, colPc,
                   retPc, closeFrame>>

(* ---------------------------------------------------------------------- *)
(* IPC workers: requests on a connection                                   *)
(* ---------------------------------------------------------------------- *)
\* json.RawMessage params: absent, not decodable into the params struct,
\* or decoded (port)
NoParams == [state |-> "absent", port |-> 0, startDate |-> 0, endDate |-> 0]
BadParams == [state |-> "undecodable", port |-> 0, startDate |-> 0, endDate |-> 0]
PortParams(port) == [state |-> "decoded", port |-> port]
HistoricalParams(port, startDate, endDate) ==
    [state |-> "decoded", port |-> port, startDate |-> startDate, endDate |-> endDate]

\* no line scanned yet
NoLine == [json |-> FALSE, id |-> 0, method |-> "", params |-> NoParams, size |-> 0]
\* a line json.Unmarshal rejects
Malformed == [json |-> FALSE, id |-> 0, method |-> "", params |-> NoParams, size |-> 8]
\* a line that decodes into an api.Request
Request(id, method, params) ==
    [json |-> TRUE, id |-> id, method |-> method, params |-> params, size |-> 64]

\* bufio.MaxScanTokenSize: handleClient's scanner keeps the default buffer,
\* so a line that fills it without a newline ends Scan with ErrTooLong
MaxScanTokenSize == 65536
\* a line of bytes that are not JSON, as long as the scanner's buffer
Oversized ==
    [json |-> FALSE, id |-> 0, method |-> "", params |-> NoParams,
     size |-> MaxScanTokenSize]

\* ErrCodeInvalidRequest, ErrCodeInvalidParams
ErrCodeInvalidRequest == 0 - 32600
ErrCodeInvalidParams == 0 - 32602

\* a params check that lets absent params through as the zero value
Decoded_AbsentOk(params) == params.state # "undecodable"

\* json.Unmarshal(req.Params, &params) returns no error
Decoded(params) == params.state = "decoded"

\* a response that never echoes the id
Encode_ZeroId(id, r) ==
    [id |-> 0,
     result |-> IF r.code = 0 THEN <<r.result>> ELSE << >>,
     error |-> IF r.code # 0
               THEN <<[code |-> r.code, message |-> r.result.Message]>>
               ELSE << >>]

\* api.Response on the wire: id always, result and error omitted when empty
\* (a field is held as a sequence of length 0 or 1)
Encode(id, r) ==
    [id |-> id,
     result |-> IF r.code = 0 THEN <<r.result>> ELSE << >>,
     error |-> IF r.code # 0
               THEN <<[code |-> r.code, message |-> r.result.Message]>>
               ELSE << >>]

\* an AddPort that reports no error when the map is full
AddPort_Silent(tp, port) ==
    IF ~LoaderOpen
    THEN [err |-> TRUE, ports |-> tp, msg |-> "eBPF programs not loaded"]
    ELSE IF port \notin tp /\ Cardinality(tp) >= TargetMaxEntries
    THEN [err |-> FALSE, ports |-> tp, msg |-> ""]
    ELSE [err |-> FALSE, ports |-> tp \cup {port}, msg |-> ""]

\* Loader.AddPort: an error when the objects are closed or when the map is
\* full and does not hold the port, else the port is put
AddPort(tp, port) ==
    IF ~LoaderOpen
    THEN [err |-> TRUE, ports |-> tp, msg |-> "eBPF programs not loaded"]
    ELSE IF port \notin tp /\ Cardinality(tp) >= TargetMaxEntries
    THEN [err |-> TRUE, ports |-> tp, msg |-> "adding port to target_ports map"]
    ELSE [err |-> FALSE, ports |-> tp \cup {port}, msg |-> ""]

\* a RemovePort that reports a missing key as an error
RemovePort_Strict(tp, port) ==
    [err |-> ~LoaderOpen \/ port \notin tp, ports |-> tp \ {port},
     msg |-> "removing port from target_ports map"]

\* Loader.RemovePort: an error when the objects are closed; a missing key
\* (ErrKeyNotExist) is not an error
RemovePort(tp, port) ==
    IF ~LoaderOpen
    THEN [err |-> TRUE, ports |-> tp, msg |-> "eBPF programs not loaded"]
    ELSE [err |-> FALSE, ports |-> tp \ {port}, msg |-> ""]

\* a filter that drops one occurrence only
WithoutPort_First(list, port) ==
    IF \E i \in 1..Len(list) : list[i] = port
    THEN LET i == CHOOSE j \in 1..Len(list) :
                     list[j] = port /\ \A k \in 1..(j - 1) : list[k] # port
         IN SubSeq(list, 1, i - 1) \o SubSeq(list, i + 1, Len(list))
    ELSE list

\* handleRemovePort, lines 278-283: the list without every occurrence of port
RECURSIVE WithoutPort(_, _)
WithoutPort(list, port) ==
    IF list = << >> THEN << >>
    ELSE (IF Head(list) # port THEN <<Head(list)>> ELSE << >>)
         \o WithoutPort(Tail(list), port)

\* handleAddPort for a well-formed request of the only client: target_ports
\* takes the port unless it is full, then the port is appended to the list
handleAddPort(port) ==
    /\ portOps < MaxPortOps
    /\ portOps' = portOps + 1
    /\ LET full == port \notin targetPorts
                    /\ Cardinality(targetPorts) >= TargetMaxEntries
           r == AddPort(targetPorts, port)
       IN IF r.err \/ full
          THEN UNCHANGED <<targetPorts, configPorts>>
          ELSE /\ targetPorts' = r.ports
               /\ configPorts' = Append(configPorts, port)
    /\ UNCHANGED <<now, boundVars, collectorVars, aggVars, storeVars, ipcVars,
                   lifeVars, obsVars, workerVars, billingVars, startVars, cleanups,
                   portStatsMap, connStatsMap, hook, connRows, clock, credited,
                   inserted, snapVars, closeVars, passVars>>

\* handleRemovePort for a well-formed request of the only client
handleRemovePort(port) ==
    /\ portOps < MaxPortOps
    /\ portOps' = portOps + 1
    /\ LET r == RemovePort(targetPorts, port)
       IN IF r.err
          THEN UNCHANGED <<targetPorts, configPorts>>
          ELSE /\ targetPorts' = r.ports
               /\ configPorts' = WithoutPort(configPorts, port)
    /\ UNCHANGED <<now, boundVars, collectorVars, aggVars, storeVars, ipcVars,
                   lifeVars, obsVars, workerVars, billingVars, startVars, cleanups,
                   portStatsMap, connStatsMap, hook, connRows, clock, credited,
                   inserted, snapVars, closeVars, passVars>>

\* Collector.GetStats: the published sample, or a zero one for the port
\* a collector that hands out an empty sample for a port it has not published
GetStats_NoPort(port) ==
    IF port \in DOMAIN rates THEN rates[port]
    ELSE [Port |-> 0, RxBytes |-> 0, TxBytes |-> 0, RxPackets |-> 0,
          TxPackets |-> 0, Connections |-> 0, RxRate |-> ZeroRate, TxRate |-> ZeroRate]

\* Collector.GetStats
GetStats(port) ==
    IF port \in DOMAIN rates THEN rates[port]
    ELSE [Port |-> port, RxBytes |-> 0, TxBytes |-> 0, RxPackets |-> 0,
          TxPackets |-> 0, Connections |-> 0, RxRate |-> ZeroRate, TxRate |-> ZeroRate]

\* Server.handleGetRealtimeStats
handleGetRealtimeStats(req) ==
    IF ~Decoded(req.params)
    THEN errorResponse(req.method, ErrCodeInvalidParams, "invalid params")
    ELSE LET stats == GetStats(req.params.port)
         IN successResponse(req.method,
               [Port |-> stats.Port, RxBytes |-> stats.RxBytes,
                TxBytes |-> stats.TxBytes, RxPackets |-> stats.RxPackets,
                TxPackets |-> stats.TxPackets, Connections |-> stats.Connections,
                RxRate |-> stats.RxRate, TxRate |-> stats.TxRate])

\* Server.handleGetStatus (the fields that vary)
handleGetStatus(req) ==
    successResponse(req.method, [Running |-> TRUE, MonitoredPorts |-> configPorts])

\* Server.handleListPorts
handleListPorts(req) == successResponse(req.method, [Ports |-> configPorts])

\* the reply of handleAddPort / handleRemovePort once config.Ports is stored
SuccessResult(req) ==
    successResponse(req.method, [Success |-> TRUE, Port |-> req.params.port])

\* the requests handleRequest answers without touching config.Ports, and
\* the port requests that end before they touch it
Answer(req) ==
    IF ~req.json
    THEN errorResponse("", ErrCodeInvalidRequest, "invalid JSON")
    ELSE IF req.method = "get_realtime_stats" THEN handleGetRealtimeStats(req)
    ELSE IF req.method = "get_status" THEN handleGetStatus(req)
    ELSE IF req.method = "list_ports" THEN handleListPorts(req)
    ELSE IF req.method \in {"add_port", "remove_port"}
         THEN IF ~Decoded(req.params)
              THEN errorResponse(req.method, ErrCodeInvalidParams, "invalid params")
              ELSE errorResponse(req.method, ErrCodeInternal,
                      IF req.method = "add_port"
                      THEN AddPort(targetPorts, req.params.port).msg
                      ELSE RemovePort(targetPorts, req.params.port).msg)
    ELSE IF req.method = "get_historical_stats"
         THEN IF ~Decoded(req.params)
              THEN errorResponse(req.method, ErrCodeInvalidParams, "invalid params")
              ELSE successResponse(req.method,
                      HistoricalStatsResult(req.params.port, req.params.startDate,
                                            req.params.endDate))
    ELSE errorResponse(req.method, ErrCodeMethodNotFound, "method not found")

\* where handleClient goes after a reply: `continue` after sendError, the
\* next iteration after Encode; in both cases back to scanner.Scan()
AfterReply(req) == "scan"

workerFrame == <<now, boundVars, collectorVars, aggVars, storeVars, ipcVars,
                 lifeVars, obsVars, billingVars, startVars, probeVars, snapVars, closeVars, passVars, cleanups,
                 portStatsMap, connStatsMap>>

\* handleClient, scanner.Scan(): the worker of a connection reads a line the
\* client has sent.  A line that does not fit the scanner's buffer makes Scan
\* return false: the loop ends with nothing written and the deferred
\* conn.Close() runs (wline keeps the bytes the scanner stopped on).
Scan(w, line) ==
    /\ mainPc = "waiting"
    /\ wpc[w] = "scan"
    /\ lines < MaxLines
    /\ lines' = lines + 1
    /\ wline' = [wline EXCEPT ![w] = line]
    /\ IF line.size < MaxScanTokenSize
       THEN /\ read' = [read EXCEPT ![w] = Append(@, line)]
            /\ wpc' = [wpc EXCEPT ![w] = "handle"]
       ELSE /\ read' = read
            /\ wpc' = [wpc EXCEPT ![w] = "closed"]
    /\ UNCHANGED <<workerFrame, targetPorts, configPorts, wlocal, written>>

\* handleClient, lines 130-140: decode the line and answer it.  add_port
\* and remove_port with decoded params call the Loader and read
\* config.Ports here; the worker stores the new list in its next step.
handleLine(w) ==
    /\ wpc[w] = "handle"
    /\ LET req == wline[w]
           isPort == req.json /\ req.method \in {"add_port", "remove_port"}
                     /\ Decoded(req.params)
           loaded == IF req.method = "add_port"
                     THEN AddPort(targetPorts, req.params.port)
                     ELSE RemovePort(targetPorts, req.params.port)
       IN IF isPort /\ ~loaded.err
          THEN /\ targetPorts' = loaded.ports
               /\ wlocal' = [wlocal EXCEPT ![w] =
                               IF req.method = "add_port"
                               THEN Append(configPorts, req.params.port)
                               ELSE WithoutPort(configPorts, req.params.port)]
               /\ wpc' = [wpc EXCEPT ![w] = "store"]
               /\ UNCHANGED written
          ELSE /\ written' = [written EXCEPT ![w] =
                               Append(@, Encode(IF req.json THEN req.id ELSE 0,
                                                Answer(req)))]
               /\ wpc' = [wpc EXCEPT ![w] = AfterReply(req)]
               /\ UNCHANGED <<targetPorts, wlocal>>
    /\ UNCHANGED <<workerFrame, configPorts, lines, wline, read>>

\* handleAddPort line 259 / handleRemovePort line 284: the assignment to
\* config.Ports, and the success reply
storePorts(w) ==
    /\ wpc[w] = "store"
    /\ configPorts' = wlocal[w]
    /\ written' = [written EXCEPT ![w] =
                     Append(@, Encode(wline[w].id, SuccessResult(wline[w])))]
    /\ wpc' = [wpc EXCEPT ![w] = "scan"]
    /\ UNCHANGED <<workerFrame, targetPorts, lines, wline, wlocal, read>>

(* ---------------------------------------------------------------------- *)
(* Billing cycle dates                                                     *)
(* ---------------------------------------------------------------------- *)
\* a civil date and time: year, month, day, second of the day
Civil(y, m, d, sec) == [year |-> y, month |-> m, day |-> d, sec |-> sec]
\* time.Time zero value
ZeroDate == Civil(1, 1, 1, 0)

IsLeap(y) == (y % 4 = 0 /\ y % 100 # 0) \/ y % 400 = 0
\* days of month m (1..12) of year y
DaysIn(y, m) ==
    IF m = 2 THEN (IF IsLeap(y) THEN 29 ELSE 28)
    ELSE IF m \in {4, 6, 9, 11} THEN 30 ELSE 31

\* time.Date normalisation of the month: month 0 is December of the year
\* before, month 13 January of the year after
NormMonth(y, m) ==
    [year |-> y + ((m - 1) \div 12), month |-> ((m - 1) % 12) + 1]

\* time.Date(y, m, d, ..): values outside their range are normalised, so
\* day 0 is the last day of the month before
RECURSIVE Date(_, _, _, _)
Date(y, m, d, sec) ==
    LET ym == NormMonth(y, m)
    IN IF d < 1
       THEN LET prev == NormMonth(ym.year, ym.month - 1)
            IN Date(prev.year, prev.month, d + DaysIn(prev.year, prev.month), sec)
       ELSE IF d > DaysIn(ym.year, ym.month)
       THEN Date(ym.year, ym.month + 1, d - DaysIn(ym.year, ym.month), sec)
       ELSE Civil(ym.year, ym.month, d, sec)

\* a cycle day taken as given
Clamp_None(cd) == cd

\* lines 9-11: a cycle day outside 1..28 becomes 1
Clamp(cd) == IF cd < 1 \/ cd > 28 THEN 1 ELSE cd

\* 23:59:59 as the second of the day
EndOfDay == 23 * 3600 + 59 * 60 + 59

\* storage.GetBillingCycleDates
GetBillingCycleDates(cd, ref) ==
    LET day == Clamp(cd)
    IN IF ref.day >= day
       THEN [start |-> Date(ref.year, ref.month, day, 0),
             end |-> Date(ref.year, ref.month + 1, day - 1, EndOfDay)]
       ELSE [start |-> Date(ref.year, ref.month - 1, day, 0),
             end |-> Date(ref.year, ref.month, day - 1, EndOfDay)]

\* a range that starts n days before the reference
GetLastNDays_Before(n, ref) ==
    [start |-> Date(ref.year, ref.month, ref.day - n, 0), end |-> ref]

\* storage.GetLastNDays: reference.AddDate(0, 0, -n+1), cut to its midnight
GetLastNDays(n, ref) ==
    LET start == Date(ref.year, ref.month, ref.day + (0 - n + 1), ref.sec)
    IN [start |-> Date(start.year, start.month, start.day, 0), end |-> ref]

\* a caller's call of GetLastNDays returns
LastNCall ==
    /\ billingPc = "called"
    /\ lastN' = GetLastNDays(nDays, reference)
    /\ billingPc' = "returned"
    /\ UNCHANGED <<cycleDay, reference, cycle, nDays, startVars, probeVars, snapVars, closeVars, passVars, now, boundVars, collectorVars,
                   aggVars, storeVars, ipcVars, lifeVars, obsVars, cleanups, kernelVars,
                   configPorts, workerVars>>

\* a caller's call of GetBillingCycleDates returns
BillingCall ==
    /\ billingPc = "called"
    /\ cycle' = GetBillingCycleDates(cycleDay, reference)
    /\ billingPc' = "returned"
    /\ UNCHANGED <<cycleDay, reference, nDays, lastN, startVars, probeVars, snapVars, closeVars, passVars, now, boundVars, collectorVars, aggVars, storeVars,
                   ipcVars, lifeVars, obsVars, cleanups, kernelVars, configPorts,
                   workerVars>>

\* the caller goes on to its next call, one day later
BillingNextDay ==
    /\ billingPc = "returned"
    /\ reference.year <= MaxYear
    /\ reference' = Date(reference.year, reference.month, reference.day + 1,
                         reference.sec)
    /\ billingPc' = "called"
    /\ UNCHANGED <<cycleDay, cycle, nDays, lastN, startVars, probeVars, snapVars, closeVars, passVars, now, boundVars, collectorVars, aggVars, storeVars,
                   ipcVars, lifeVars, obsVars, cleanups, kernelVars, configPorts,
                   workerVars>>

(* ---------------------------------------------------------------------- *)
(* Daemon start                                                            *)
(* ---------------------------------------------------------------------- *)
\* runDaemon lines 64-89: the flags override the configuration, and a
\* retention of 0 becomes 180
Override(c, fPorts, fRetention) ==
    LET ps == IF Len(fPorts) > 0 THEN fPorts ELSE c.Ports
        rd == IF fRetention > 0 THEN fRetention ELSE c.RetentionDays
    IN [Ports |-> ps, RetentionDays |-> IF rd = 0 THEN 180 ELSE rd]

\* runDaemon lines 107-123: the checks before daemon.New
Valid(c) ==
    /\ Len(c.Ports) # 0
    /\ \A i \in 1..Len(c.Ports) : ~(c.Ports[i] < 1 \/ c.Ports[i] > 65535)
    /\ ~(c.RetentionDays < 1 \/ c.RetentionDays > 365)

\* cmd/portmond runDaemon: cfg holds what config.Load returned, or
\* config.Defaults() when it failed; a failed Load is an error only when
\* --config was given.  "run": daemon.New(daemonCfg).Run() is called.
runDaemon ==
    /\ startPc = "invoked"
    /\ startPc' = IF ~fileLoaded /\ configPath THEN "refused"
                  ELSE IF Valid(Override(cfg, flagPorts, flagRetentionDays))
                  THEN "run" ELSE "refused"
    /\ cfg' = IF ~fileLoaded /\ configPath THEN cfg
              ELSE Override(cfg, flagPorts, flagRetentionDays)
    /\ UNCHANGED <<configPath, flagPorts, flagRetentionDays, fileLoaded, probeVars, snapVars, closeVars, passVars, now, boundVars,
                   collectorVars, aggVars, storeVars, ipcVars, lifeVars, obsVars,
                   cleanups, kernelVars, configPorts, workerVars, billingVars>>

(* ---------------------------------------------------------------------- *)
(* Specifications                                                          *)
(* ---------------------------------------------------------------------- *)
InitRun ==
    /\ ticks = 0
    /\ events = 0
    /\ targetPorts = ConfigPorts
    /\ portStatsMap = EmptyMap
    /\ connStatsMap = {}
    /\ lastStats = EmptyMap
    /\ lastTime = ZeroTime
    /\ rates = EmptyMap
    /\ lastPersist = EmptyMap
    /\ peakRates = EmptyMap
    /\ requests = 0
    /\ resp = [method |-> "", code |-> 0, result |-> [Message |-> ""]]
    /\ cancelled = FALSE
    /\ mainPc = "waiting"
    /\ aggPc = "loop"
    /\ colPc = "loop"
    /\ retPc = "loop"
    /\ lastPass = EmptyMap
    /\ sumDelta = EmptyMap
    /\ lossy = {}
    /\ seenPeak = EmptyMap

\* a daemon started at instant 0 on a new, empty database
InitState ==
    /\ now = 0
    /\ hourly = EmptyMap
    /\ daily = EmptyMap
    /\ InitRun

\* the server as NewServer and Serve leave it: the configured list, every
\* worker waiting for its first line
InitWorkers ==
    /\ configPorts = ConfigList
    /\ lines = 0
    /\ wpc = [w \in Workers |-> "scan"]
    /\ wline = [w \in Workers |-> NoLine]
    /\ wlocal = [w \in Workers |-> << >>]
    /\ read = [w \in Workers |-> << >>]
    /\ written = [w \in Workers |-> << >>]
    /\ cleanups = 0

\* runDaemon has accepted the command line (--port 5000 and the retention,
\* no config file) and has called daemon.Run
InitStarted ==
    /\ startPc = "run"
    /\ configPath = FALSE
    /\ flagPorts = ConfigList
    /\ flagRetentionDays = RetentionDays
    /\ fileLoaded = FALSE
    /\ cfg = [Ports |-> ConfigList, RetentionDays |-> RetentionDays]

\* no hook has run yet on the CPUs given
InitProbe(cpus) ==
    /\ hook = [c \in cpus |-> IdleHook]
    /\ connRows = EmptyMap
    /\ clock = 1
    /\ portOps = 0
    /\ credited = [p \in ProbePorts |-> ZeroCredit]
    /\ inserted = [p \in ProbePorts |-> {}]

\* NewCollector: no sample yet, nobody reads
InitSnapshot ==
    /\ heap = EmptyMap
    /\ ratesRef = EmptyMap
    /\ reader = [r \in Readers |-> IdleReader]

InitServer ==
    /\ InitWorkers
    /\ InitStarted
    /\ InitProbe(Cpus)
    /\ InitSnapshot
    /\ InitClose
    /\ InitPass

\* no call of GetBillingCycleDates under way
InitBillingIdle ==
    /\ billingPc = "idle"
    /\ cycleDay = 1
    /\ reference = ZeroDate
    /\ cycle = [start |-> ZeroDate, end |-> ZeroDate]
    /\ nDays = 1
    /\ lastN = [start |-> ZeroDate, end |-> ZeroDate]

\* The running daemon with a healthy store: probe, collector, aggregator.
Init ==
    /\ InitState
    /\ InitServer
    /\ InitBillingIdle
    /\ clears = 0
    /\ failures = MaxFailures

Next ==
    \/ \E ck \in ConnKeys, size \in SendSizes : trace_tcp_sendmsg(ck, size)
    \/ \E ck \in ConnKeys, copied \in RecvSizes : trace_tcp_cleanup_rbuf(ck, copied)
    \/ \E d \in Steps : collect(d)
    \/ AggTick

Spec == Init /\ [][Next]_vars

\* a daemon whose collector took its first sample one second after start,
\* when port 5000 had received 1000 bytes on one socket
InitPeak ==
    /\ InitServer
    /\ InitBillingIdle
    /\ clears = 0
    /\ failures = MaxFailures
    /\ ticks = 0
    /\ events = 0
    /\ now = 1000
    /\ targetPorts = ConfigPorts
    /\ portStatsMap = Put(EmptyMap, 5000,
           [ZeroPortStats EXCEPT !.rx_bytes = 1000, !.rx_packets = 1,
                                 !.connections = 1])
    /\ connStatsMap = ConnKeys
    /\ lastStats = portStatsMap
    /\ lastTime = 1000
    /\ rates = [p \in DOMAIN portStatsMap |->
                  Sample(p, portStatsMap[p], CountActiveConnections, 0, EmptyMap)]
    /\ lastPersist = EmptyMap
    /\ peakRates = EmptyMap
    /\ hourly = EmptyMap
    /\ daily = EmptyMap
    /\ requests = 0
    /\ resp = [method |-> "", code |-> 0, result |-> [Message |-> ""]]
    /\ cancelled = FALSE
    /\ mainPc = "waiting"
    /\ aggPc = "loop"
    /\ colPc = "loop"
    /\ retPc = "loop"
    /\ lastPass = EmptyMap
    /\ sumDelta = EmptyMap
    /\ lossy = {}
    /\ seenPeak = [k \in {<<5000, 0>>} |-> [rate |-> 0, at |-> 1000]]

NextPeak ==
    \/ \E ck \in ConnKeys, size \in SendSizes : trace_tcp_sendmsg(ck, size)
    \/ \E ck \in ConnKeys, copied \in StoreRecvSizes : trace_tcp_cleanup_rbuf(ck, copied)
    \/ \E d \in StoreSteps : collect(d)
    \/ AggTick

SpecPeak == InitPeak /\ [][NextPeak]_vars

\* The same with the IPC query surface: a client asks about the current date.
NextIpc ==
    \/ \E ck \in ConnKeys, size \in SendSizes : trace_tcp_sendmsg(ck, size)
    \/ \E ck \in ConnKeys, copied \in QueryRecvSizes : trace_tcp_cleanup_rbuf(ck, copied)
    \/ \E d \in QuerySteps : collect(d)
    \/ AggTick
    \/ \E m \in Methods, p \in ConfigPorts :
          handleClient(m, p, Format(now), Format(now), TRUE)

SpecIpc == Init /\ [][NextIpc]_vars

\* The running daemon with a store whose statements may fail.
InitStore ==
    /\ InitState
    /\ InitServer
    /\ InitBillingIdle
    /\ clears = 0
    /\ failures = 0

NextStore ==
    \/ \E ck \in ConnKeys, size \in SendSizes : trace_tcp_sendmsg(ck, size)
    \/ \E ck \in ConnKeys, copied \in StoreRecvSizes : trace_tcp_cleanup_rbuf(ck, copied)
    \/ \E d \in StoreSteps : collect(d)
    \/ AggTick

SpecStore == InitStore /\ [][NextStore]_vars

\* The same store with the retention job, while received traffic is written
\* day after day.
NextRetention ==
    \/ \E ck \in ConnKeys, copied \in StoreRecvSizes : trace_tcp_cleanup_rbuf(ck, copied)
    \/ \E d \in StoreSteps : collect(d)
    \/ AggTick
    \/ \E hOK, dOK \in BOOLEAN : DeleteOldData(RetentionDays, hOK, dOK)

SpecRetention == InitStore /\ [][NextRetention]_vars

\* The running daemon with kernel-side counter resets.
NextReset ==
    \/ \E ck \in ConnKeys, size \in SendSizes : trace_tcp_sendmsg(ck, size)
    \/ \E ck \in ConnKeys, copied \in RecvSizes : trace_tcp_cleanup_rbuf(ck, copied)
    \/ \E p \in ConfigPorts : ClearPortStats(p)
    \/ \E d \in ResetSteps : collect(d)
    \/ AggTick

SpecReset == Init /\ [][NextReset]_vars

\* The daemon from start to exit; the store fails only once it is closed.
NextShutdown ==
    \/ \E ck \in ConnKeys, size \in SendSizes : trace_tcp_sendmsg(ck, size)
    \/ \E ck \in ConnKeys, copied \in RecvSizes : trace_tcp_cleanup_rbuf(ck, copied)
    \/ \E d \in ShutdownSteps : collect(d)
    \/ AggTick
    \/ AggFinal
    \/ Cancel
    \/ RunServerClose
    \/ RunLoaderClose
    \/ RunDbClose
    \/ RunReturn
    \/ CollectorStop
    \/ RetentionStop

SpecShutdown == Init /\ [][NextShutdown]_vars

\* ports a client names
ClientPorts == {5000, 6000}

\* One client managing the monitored ports over one connection.
PortLines ==
    {Request(1, m, PortParams(p)) : m \in {"add_port", "remove_port"}, p \in ClientPorts}
    \cup {Request(1, "list_ports", NoParams)}

NextPorts ==
    \/ \E line \in PortLines : Scan(1, line)
    \/ handleLine(1)
    \/ storePorts(1)

SpecPorts == Init /\ [][NextPorts]_vars

\* Two clients, each on its own connection, adding ports and listing them.
RaceLines ==
    {Request(1, "add_port", PortParams(p)) : p \in {5000, 6000}}
    \cup {Request(1, "list_ports", NoParams)}

NextRace ==
    \/ \E w \in Workers, line \in RaceLines : Scan(w, line)
    \/ \E w \in Workers : handleLine(w)
    \/ \E w \in Workers : storePorts(w)

SpecRace == Init /\ [][NextRace]_vars

\* A client asking for realtime samples while traffic flows and the
\* collector ticks.
RealtimeSteps == {1000}
RealtimeLines == {Request(1, "get_realtime_stats", PortParams(p)) : p \in ClientPorts}

NextRealtime ==
    \/ \E ck \in ConnKeys, size \in SendSizes : trace_tcp_sendmsg(ck, size)
    \/ \E ck \in ConnKeys, copied \in StoreRecvSizes : trace_tcp_cleanup_rbuf(ck, copied)
    \/ \E d \in RealtimeSteps : collect(d)
    \/ \E line \in RealtimeLines : Scan(1, line)
    \/ handleLine(1)

SpecRealtime == Init /\ [][NextRealtime]_vars

\* A client asking for history of a daemon started on a database that
\* already holds daily rows (storage.Open opens the existing file).
HistoryDates == {1, 2, 3}
DailyRow(rx, tx, peakRx, peakTx) ==
    [rx_bytes |-> rx, tx_bytes |-> tx, rx_packets |-> 1, tx_packets |-> 1,
     connections |-> 1, peak_rx_rate |-> peakRx, peak_tx_rate |-> peakTx]
HistoryRows == {DailyRow(1000, 0, 10, 0), DailyRow(2000, 1500, 5, 7)}
\* the tables: any days of port 5000, and one day of port 7000
StoredTables ==
    UNION {[{<<5000, d>> : d \in D} \cup {<<7000, 2>>} -> HistoryRows] :
              D \in SUBSET HistoryDates}
HistoryRanges ==
    {<<5000, 1, 2>>, <<5000, 2, 2>>, <<5000, 2, 1>>, <<5000, 0, 3>>, <<6000, 0, 3>>}
HistoryLines ==
    {Request(1, "get_historical_stats", HistoricalParams(r[1], r[2], r[3])) :
        r \in HistoryRanges}

InitQuery ==
    /\ now = 3 * DayMs
    /\ hourly = EmptyMap
    /\ daily \in StoredTables
    /\ InitRun
    /\ InitServer
    /\ InitBillingIdle
    /\ clears = 0
    /\ failures = MaxFailures

NextQuery ==
    \/ \E line \in HistoryLines : Scan(1, line)
    \/ handleLine(1)

SpecQuery == InitQuery /\ [][NextQuery]_vars

\* Calls of GetBillingCycleDates for every cycle day a configuration can
\* hold and reference instants around month ends, a leap day and the turn of
\* the year.
CycleDays == 0..MaxCycleDay
ReferenceDays ==
    {Civil(y, m, d, sec) :
        y \in {2024, 2025}, m \in {1, 2, 3, 12}, d \in {1, 14, 15, 28}, sec \in {0, 43200, EndOfDay}}
    \cup {Civil(2024, 2, 29, 43200), Civil(2025, 1, 10, 43200), Civil(2025, 1, 20, 43200),
          Civil(2025, 3, 31, EndOfDay), Civil(2024, 12, 31, EndOfDay)}

InitBilling ==
    /\ InitState
    /\ InitServer
    /\ clears = 0
    /\ failures = MaxFailures
    /\ billingPc = "called"
    /\ cycleDay \in CycleDays
    /\ reference \in ReferenceDays
    /\ cycle = [start |-> ZeroDate, end |-> ZeroDate]
    /\ nDays = 1
    /\ lastN = [start |-> ZeroDate, end |-> ZeroDate]

NextBilling ==
    \/ BillingCall
    \/ BillingNextDay

SpecBilling == InitBilling /\ [][NextBilling]_vars

\* Calls of GetLastNDays for ranges of one day up to more than a month.
LastNCounts == 1..MaxN

InitLastN ==
    /\ InitState
    /\ InitServer
    /\ clears = 0
    /\ failures = MaxFailures
    /\ billingPc = "called"
    /\ cycleDay = 1
    /\ cycle = [start |-> ZeroDate, end |-> ZeroDate]
    /\ nDays \in LastNCounts
    /\ reference \in ReferenceDays \cup {Civil(2025, 1, 15, 52200)}
    /\ lastN = [start |-> ZeroDate, end |-> ZeroDate]

NextLastN ==
    \/ LastNCall
    \/ BillingNextDay

SpecLastN == InitLastN /\ [][NextLastN]_vars

\* portmond started with every mix of good and bad flags and configuration.
FlagPortLists == {<< >>, <<8080>>, <<0>>, <<8080, 65536>>, <<65535, 1>>}
FlagRetentions == {0 - 5, 0, 1, 365, 366}
FilePortLists == {<< >>, <<5000>>, <<70000>>}
FileRetentions == {0 - 1, 0, 30, 366}

InitStartup ==
    /\ InitState
    /\ InitWorkers
    /\ InitProbe(Cpus)
    /\ InitSnapshot
    /\ InitClose
    /\ InitPass
    /\ InitBillingIdle
    /\ clears = 0
    /\ failures = MaxFailures
    /\ startPc = "invoked"
    /\ configPath \in BOOLEAN
    /\ fileLoaded \in BOOLEAN
    /\ flagPorts \in FlagPortLists
    /\ flagRetentionDays \in FlagRetentions
    /\ cfg \in [Ports : FilePortLists, RetentionDays : FileRetentions]

NextStartup == runDaemon

SpecStartup == InitStartup /\ [][NextStartup]_vars

\* The two hooks on two CPUs at once, on the sockets of the one port the
\* daemon was started with.
NextProbe ==
    \/ \E c \in Cpus, ck \in ProbeKeys, size \in SendSizes :
          hook_entry(c, "send", ck, size, MaxEvents)
    \/ \E c \in Cpus, ck \in ProbeKeys, copied \in RecvSizes :
          hook_entry(c, "recv", ck, copied, MaxEvents)
    \/ hook_step

SpecProbe == Init /\ [][NextProbe]_vars

\* One CPU, while a client adds and removes ports.
InitRows ==
    /\ InitState
    /\ InitWorkers
    /\ InitStarted
    /\ InitProbe({1})
    /\ InitSnapshot
    /\ InitClose
    /\ InitPass
    /\ InitBillingIdle
    /\ clears = 0
    /\ failures = MaxFailures

NextRows ==
    \/ \E ck \in RowKeys, size \in SendSizes :
          hook_entry(1, "send", ck, size, MaxProbeEvents)
    \/ \E ck \in RowKeys, copied \in StoreRecvSizes :
          hook_entry(1, "recv", ck, copied, MaxProbeEvents)
    \/ hook_step
    \/ \E port \in ProbePorts : handleAddPort(port)
    \/ \E port \in ProbePorts : handleRemovePort(port)

SpecRows == InitRows /\ [][NextRows]_vars

\* The collector's ticks against the readers of its samples.
NextSnapshot ==
    \/ \E ck \in ConnKeys, copied \in StoreRecvSizes :
          trace_tcp_cleanup_rbuf(ck, copied)
    \/ \E d \in ResetSteps : collectSnapshot(d)
    \/ \E port \in ConfigPorts : GetStatsCall(port)
    \/ ReadField
    \/ GetAllStatsCall

SpecSnapshot == Init /\ [][NextSnapshot]_vars

\* One client sending good and bad lines on one connection.
ConnLines ==
    {Malformed, Oversized, Request(2, "bogus", NoParams)}
    \cup {Request(1, m, ps) :
            m \in {"get_realtime_stats", "get_historical_stats", "add_port", "remove_port"},
            ps \in {NoParams, BadParams}}
    \cup {Request(3, "list_ports", NoParams), Request(4, "add_port", PortParams(6000))}

NextConn ==
    \/ \E line \in ConnLines : Scan(1, line)
    \/ handleLine(1)
    \/ storePorts(1)

SpecConn == Init /\ [][NextConn]_vars

(* ---------------------------------------------------------------------- *)
(* Properties                                                              *)
(* ---------------------------------------------------------------------- *)
Fields == {"rx_bytes", "tx_bytes", "rx_packets", "tx_packets", "connections"}

Today == Format(now)

\* the local date of an hourly_stats timestamp
DateOfTs(ts) == ts \div 86400

\* sum of hourly_stats.rx_bytes of a port over the hours of a date
RECURSIVE SumHourlyRx(_)
SumHourlyRx(keys) ==
    IF keys = {} THEN 0
    ELSE LET k == CHOOSE x \in keys : TRUE
         IN hourly[k].rx_bytes + SumHourlyRx(keys \ {k})
HourlyRxOn(port, date) ==
    SumHourlyRx({k \in DOMAIN hourly : k[1] = port /\ DateOfTs(k[2]) = date})
DailyRxOn(port, date) ==
    IF <<port, date>> \in DOMAIN daily THEN daily[<<port, date>>].rx_bytes ELSE 0

\* C1: when the latest persist pass of a port found no shadow, wrote its
\* delta and its daily upsert succeeded, get_historical_stats(port, today,
\* today) on the date of that pass returns the whole counters of the
\* snapshot of that pass: total_rx, total_tx and their sum.
C1_FirstSample ==
    \A p \in DOMAIN lastPass :
        (/\ ~lastPass[p].hadShadow
         /\ ~lastPass[p].skipped
         /\ lastPass[p].dOK
         /\ Format(lastPass[p].t) = Today)
        => LET r == HistoricalStatsResult(p, Today, Today)
           IN /\ r.TotalRx = lastPass[p].cur.rx_bytes
              /\ r.TotalTx = lastPass[p].cur.tx_bytes
              /\ r.TotalBytes = lastPass[p].cur.rx_bytes + lastPass[p].cur.tx_bytes

\* the scenario of C1: snapshot rx=3000 tx=1500, first pass, then the query
C1_Witness ==
    /\ 5000 \in DOMAIN lastPass
    /\ ~lastPass[5000].hadShadow
    /\ ~lastPass[5000].skipped
    /\ lastPass[5000].cur.rx_bytes = 3000
    /\ lastPass[5000].cur.tx_bytes = 1500
    /\ resp.method = "get_historical_stats"
    /\ resp.code = 0
    /\ resp.result.TotalRx = 3000
    /\ resp.result.TotalTx = 1500
    /\ resp.result.TotalBytes = 4500

\* C2: for every port and hour in which no hourly upsert failed and no
\* retention delete removed the row, hourly_stats(port, hour).rx_bytes is
\* exactly the total of the rx deltas the aggregator computed in that hour.
C2_BucketSum ==
    \A k \in DOMAIN sumDelta :
        k \notin lossy => (k \in DOMAIN hourly /\ hourly[k].rx_bytes = sumDelta[k])

\* two passes in one hour have contributed: the row holds more than the
\* latest delta
C2_Witness ==
    \E k \in DOMAIN sumDelta :
        /\ k \notin lossy
        /\ k[1] \in DOMAIN lastPass
        /\ lastPass[k[1]].hadShadow
        /\ ~lastPass[k[1]].skipped
        /\ HourTs(lastPass[k[1]].t) = k[2]
        /\ lastPass[k[1]].delta.rx_bytes > 0
        /\ sumDelta[k] > lastPass[k[1]].delta.rx_bytes
        /\ hourly[k].rx_bytes = sumDelta[k]

\* C3: for every port and date, the hourly rx_bytes over the hours of the
\* date do not exceed the daily rx_bytes of the date.
C3_HourlyLeDaily ==
    \A p \in ConfigPorts :
        \A date \in {DateOfTs(k[2]) : k \in DOMAIN hourly} :
            HourlyRxOn(p, date) <= DailyRxOn(p, date)

\* C4: in the latest persist pass of every port every delta field is >= 0;
\* against an existing shadow it is current - shadow when current >= shadow
\* and 0 when current < shadow.
C4_DeltaNonNegative ==
    \A p \in DOMAIN lastPass :
        \A f \in Fields :
            /\ lastPass[p].delta[f] >= 0
            /\ lastPass[p].hadShadow =>
                 /\ lastPass[p].cur[f] >= lastPass[p].shadow[f]
                      => lastPass[p].delta[f] = lastPass[p].cur[f] - lastPass[p].shadow[f]
                 /\ lastPass[p].cur[f] < lastPass[p].shadow[f]
                      => lastPass[p].delta[f] = 0

\* a pass met a regressed rx counter and still had a delta to write
C4_Witness ==
    \E p \in DOMAIN lastPass :
        /\ lastPass[p].hadShadow
        /\ lastPass[p].cur.rx_bytes < lastPass[p].shadow.rx_bytes
        /\ lastPass[p].delta.rx_bytes = 0
        /\ lastPass[p].delta.tx_bytes > 0
        /\ ~lastPass[p].skipped

\* C5: a collector tick that finds rx_bytes (tx_bytes) of a port lower than
\* in the previous sample publishes rx_rate (tx_rate) 0 for it.
C5_RegressRateZero ==
    [][\A p \in (DOMAIN portStatsMap) \cap (DOMAIN lastStats) :
          (ticks' = ticks + 1 /\ LoaderOpen) =>
             /\ portStatsMap[p].rx_bytes < lastStats[p].rx_bytes
                   => rates'[p].RxRate = ZeroRate
             /\ portStatsMap[p].tx_bytes < lastStats[p].tx_bytes
                   => rates'[p].TxRate = ZeroRate]_vars

\* C6: right after every aggregator pass, the daily_stats row of every port
\* for the current date holds as peak_rx_rate the largest floored rx_rate
\* the collector has published for that port on that date.
C6_PeakIsMax ==
    [][lastPass' # lastPass =>
          \A k \in DOMAIN daily' :
              k[2] = Format(now') =>
                 /\ k \in DOMAIN seenPeak'
                 /\ daily'[k].peak_rx_rate = seenPeak'[k].rate]_vars

\* C7: once the collector has published an rx_rate of 2000 B/s or more for
\* a port today and an aggregator pass has written the port's delta at
\* least one persist interval later on the same date, get_historical_stats
\* (port, today, today) returns peak_rx_rate >= 2000.
C7_PeakEndToEnd ==
    \A p \in DOMAIN lastPass :
        (/\ <<p, Today>> \in DOMAIN seenPeak
         /\ seenPeak[<<p, Today>>].rate >= 2000
         /\ lastPass[p].t >= seenPeak[<<p, Today>>].at + PersistInterval
         /\ Format(lastPass[p].t) = Today)
        => HistoricalStatsResult(p, Today, Today).PeakRxRate >= 2000

\* C8: after a pass in which an upsert of a port failed, the shadow of the
\* port is what it was before the pass.
C8_ShadowKeptOnFailure ==
    \A p \in DOMAIN lastPass :
        (~lastPass[p].skipped /\ (~lastPass[p].hOK \/ ~lastPass[p].dOK))
        => IF lastPass[p].hadShadow
           THEN p \in DOMAIN lastPersist /\ lastPersist[p] = lastPass[p].shadow
           ELSE p \notin DOMAIN lastPersist

\* C9: when the store is closed while the collector's snapshot holds deltas
\* that no pass has written, the aggregator has already finished its final
\* persist pass (so they arrived after it); the store is never closed on
\* an aggregator that still has its final pass to run.
C9_FlushBeforeClose ==
    (/\ ~DbOpen
     /\ \E p \in DOMAIN GetAllStats :
           ~Skipped(Deltas(GetAllStats[p], lastPersist, p)))
    => aggPc = "stopped"

\* C10: a flush_stats request is answered with a success result.
C10_FlushAnswered == resp.method = "flush_stats" => resp.code = 0

\* the elements of a list
Range(list) == {list[i] : i \in 1..Len(list)}

\* a response that carries a result
IsSuccess(r) == Len(r.result) = 1 /\ Len(r.error) = 0

\* C11: on a connection, a list_ports that directly follows a successful
\* add_port of p returns a list containing p, and one that directly follows
\* a successful remove_port of p returns a list without p, whatever requests
\* came before.
C11_RoundTrip ==
    \A i \in 1..(Len(written[1]) - 1) :
        (/\ read[1][i + 1].method = "list_ports"
         /\ IsSuccess(written[1][i]))
        => /\ IsSuccess(written[1][i + 1])
           /\ read[1][i].method = "add_port"
                => read[1][i].params.port \in Range(written[1][i + 1].result[1].Ports)
           /\ read[1][i].method = "remove_port"
                => read[1][i].params.port \notin Range(written[1][i + 1].result[1].Ports)

\* a port that is in the list twice is removed and then listed
C11_Witness ==
    /\ Len(written[1]) = 3
    /\ read[1][1] = Request(1, "add_port", PortParams(5000))
    /\ read[1][2] = Request(1, "remove_port", PortParams(5000))
    /\ read[1][3].method = "list_ports"
    /\ IsSuccess(written[1][2])
    /\ written[1][3].result[1].Ports = << >>

\* C12: a remove_port of p whose Loader call finds p absent from
\* target_ports leaves target_ports unchanged and goes on to success; the
\* store of the filtered list leaves config.Ports unchanged when p was not
\* in it, replies success, and leaves p in neither, so that a second
\* remove_port of p changes nothing.
C12_RemoveIdempotent ==
    [][\A w \in Workers :
          LET req == wline[w]
              isRemove == req.json /\ req.method = "remove_port"
                          /\ req.params.state = "decoded"
          IN /\ (isRemove /\ wpc[w] = "handle" /\ wpc'[w] # "handle"
                  /\ req.params.port \notin targetPorts)
                  => (wpc'[w] = "store" /\ targetPorts' = targetPorts)
             /\ (isRemove /\ wpc[w] = "store" /\ wpc'[w] = "scan")
                  => /\ (req.params.port \notin Range(configPorts)
                           => configPorts' = configPorts)
                     /\ IsSuccess(written'[w][Len(written'[w])])
                     /\ req.params.port \notin Range(configPorts')
                     /\ req.params.port \notin targetPorts']_vars

\* remove_port of an absent port, twice: both succeed, nothing has changed
C12_Witness ==
    /\ Len(written[1]) = 2
    /\ read[1][1] = Request(1, "remove_port", PortParams(6000))
    /\ read[1][2] = Request(1, "remove_port", PortParams(6000))
    /\ IsSuccess(written[1][1])
    /\ IsSuccess(written[1][2])
    /\ configPorts = ConfigList
    /\ targetPorts = ConfigPorts

\* C13: while no remove_port is ever sent, every port whose add_port was
\* answered with success is in the monitored-ports list (no update of one
\* worker is lost to another).
C13_NoLostUpdate ==
    \A w \in Workers :
        \A i \in 1..Len(written[w]) :
            (read[w][i].method = "add_port" /\ IsSuccess(written[w][i]))
            => read[w][i].params.port \in Range(configPorts)

\* the error code of a response, 0 for a success
CodeOf(r) == IF Len(r.error) = 1 THEN r.error[1].code ELSE 0

\* C14: a line that is not valid JSON is answered with error -32600 and the
\* connection stays open: the worker never closes the connection on a
\* malformed line, and every request line read after it is answered as it
\* would be on a fresh connection (a list_ports with the list, an unknown
\* method with -32601).
C14_MalformedContinues ==
    /\ \A w \in Workers : ~(wpc[w] = "closed" /\ ~wline[w].json)
    /\ \A i \in 1..Len(written[1]) :
          ~read[1][i].json =>
              /\ CodeOf(written[1][i]) = ErrCodeInvalidRequest
              /\ Len(written[1][i].result) = 0
              /\ \A j \in (i + 1)..Len(written[1]) :
                    /\ read[1][j].method = "list_ports"
                          => /\ IsSuccess(written[1][j])
                             /\ Len(written[1][j].result[1].Ports) >= 1
                    /\ read[1][j].method = "bogus"
                          => CodeOf(written[1][j]) = ErrCodeMethodNotFound

\* the same for malformed lines shorter than the scanner's buffer
C14_ShortMalformedContinues ==
    /\ \A w \in Workers :
          ~(wpc[w] = "closed" /\ ~wline[w].json /\ wline[w].size < MaxScanTokenSize)
    /\ \A i \in 1..Len(written[1]) :
          ~read[1][i].json =>
              /\ CodeOf(written[1][i]) = ErrCodeInvalidRequest
              /\ \A j \in (i + 1)..Len(written[1]) :
                    read[1][j].method = "list_ports" => IsSuccess(written[1][j])

\* the method names of api/protocol.go
DefinedMethods == Dispatched \cup {"get_active_connections", "flush_stats"}

\* methods whose handler decodes params
TakesParams == {"get_realtime_stats", "get_historical_stats", "add_port", "remove_port"}

\* C15: a request whose method is none of the defined method names is answered
\* with -32601, a request to a method taking params whose params are absent
\* or undecodable is answered with -32602, and handling either leaves
\* target_ports, config.Ports and the store's tables unchanged.
C15_RejectedUnchanged ==
    [][\A w \in Workers :
          LET req == wline[w]
              unknown == req.json /\ req.method \notin DefinedMethods
              badParams == req.json /\ req.method \in TakesParams
                           /\ req.params.state \in {"absent", "undecodable"}
              reply == written'[w][Len(written'[w])]
          IN (wpc[w] = "handle" /\ wpc'[w] # "handle" /\ (unknown \/ badParams))
             => /\ Len(written'[w]) = Len(written[w]) + 1
                /\ unknown => CodeOf(reply) = ErrCodeMethodNotFound
                /\ badParams => CodeOf(reply) = ErrCodeInvalidParams
                /\ Len(reply.result) = 0
                /\ targetPorts' = targetPorts
                /\ configPorts' = configPorts
                /\ hourly' = hourly
                /\ daily' = daily]_vars

\* an unknown method and an add_port without params were both rejected and
\* the list and target_ports are as configured
C15_Witness ==
    /\ Len(written[1]) = 3
    /\ read[1][1] = Request(2, "bogus", NoParams)
    /\ read[1][2] = Request(1, "add_port", NoParams)
    /\ read[1][3] = Request(1, "remove_port", BadParams)
    /\ CodeOf(written[1][1]) = ErrCodeMethodNotFound
    /\ CodeOf(written[1][2]) = ErrCodeInvalidParams
    /\ CodeOf(written[1][3]) = ErrCodeInvalidParams
    /\ configPorts = ConfigList
    /\ targetPorts = ConfigPorts

\* the id a response to a line has to carry: the request's id, 0 for a line
\* that is no request (sendError(encoder, 0, ...))
IdOf(line) == IF line.json THEN line.id ELSE 0

\* C16: on every connection the responses written are, in order, the
\* responses to the lines read: as many responses as lines, except for the
\* one line being handled; the i-th response carries the id of the i-th
\* line and holds exactly one of result and error.
C16_OneResponsePerLine ==
    \A w \in Workers :
        /\ Len(written[w]) <= Len(read[w])
        /\ Len(read[w]) <= Len(written[w]) + 1
        /\ wpc[w] \in {"scan", "closed"} => Len(written[w]) = Len(read[w])
        /\ \A i \in 1..Len(written[w]) :
              /\ written[w][i].id = IdOf(read[w][i])
              /\ Len(written[w][i].result) + Len(written[w][i].error) = 1
              /\ read[w][i].method = "bogus"
                    <=> CodeOf(written[w][i]) = ErrCodeMethodNotFound
              /\ read[w][i].method = "list_ports" => IsSuccess(written[w][i])
              /\ (read[w][i].json /\ read[w][i].method \in TakesParams
                    /\ ~Decoded(read[w][i].params))
                    => CodeOf(written[w][i]) = ErrCodeInvalidParams

\* three requests with three ids, one of them failing, answered in order
C16_Witness ==
    /\ Len(written[1]) = 3
    /\ read[1][1] = Request(3, "list_ports", NoParams)
    /\ read[1][2] = Request(2, "bogus", NoParams)
    /\ read[1][3] = Request(1, "get_realtime_stats", BadParams)
    /\ written[1][1].id = 3 /\ IsSuccess(written[1][1])
    /\ written[1][2].id = 2 /\ CodeOf(written[1][2]) = ErrCodeMethodNotFound
    /\ written[1][3].id = 1 /\ CodeOf(written[1][3]) = ErrCodeInvalidParams

\* the sample with nothing but the port
ZeroSample(port) ==
    [Port |-> port, RxBytes |-> 0, TxBytes |-> 0, RxPackets |-> 0,
     TxPackets |-> 0, Connections |-> 0, RxRate |-> ZeroRate, TxRate |-> ZeroRate]

\* C17: the reply to get_realtime_stats{port} is a success whose result is
\* the sample the collector published last for the port (the one in
\* Collector.rates when the request is handled), or the zero sample with
\* the requested port when the collector has published none; it is never
\* an error.
C17_RealtimeSample ==
    [][\A w \in Workers :
          LET req == wline[w]
              reply == written'[w][Len(written'[w])]
          IN (/\ wpc[w] = "handle" /\ wpc'[w] # "handle"
              /\ req.json /\ req.method = "get_realtime_stats"
              /\ Decoded(req.params))
             => /\ Len(written'[w]) = Len(written[w]) + 1
                /\ IsSuccess(reply)
                /\ reply.result[1].Port = req.params.port
                /\ reply.result[1] =
                      IF req.params.port \in DOMAIN rates
                      THEN rates[req.params.port]
                      ELSE ZeroSample(req.params.port)]_vars

\* every sample published is the one built from the kernel counters at that
\* tick: the published sample of a port is the most recent one
C17_Published ==
    [][rates' # rates =>
          \A p \in DOMAIN portStatsMap :
              /\ p \in DOMAIN rates'
              /\ rates'[p].RxBytes = portStatsMap[p].rx_bytes
              /\ rates'[p].TxBytes = portStatsMap[p].tx_bytes]_vars

\* the client got the zero sample of a port never seen, then the second
\* sample of the monitored port, then the third
C17_Witness ==
    /\ Len(written[1]) = 3
    /\ read[1][1].params.port = 6000
    /\ written[1][1].result[1] = ZeroSample(6000)
    /\ read[1][2].params.port = 5000
    /\ read[1][3].params.port = 5000
    /\ IsSuccess(written[1][2])
    /\ IsSuccess(written[1][3])
    /\ written[1][2].result[1].RxBytes > 0
    /\ written[1][3].result[1].RxBytes > written[1][2].result[1].RxBytes
    /\ written[1][3].result[1] = rates[5000]

\* the keys of the daily_stats rows of a port with startDate <= date <= endDate
RowsInRange(port, startDate, endDate) ==
    {k \in DOMAIN daily : k[1] = port /\ startDate <= k[2] /\ k[2] <= endDate}

\* sums and maxima over a set of daily_stats rows
RECURSIVE SumDailyRx(_)
SumDailyRx(keys) ==
    IF keys = {} THEN 0
    ELSE LET k == CHOOSE x \in keys : TRUE
         IN daily[k].rx_bytes + SumDailyRx(keys \ {k})
RECURSIVE SumDailyTx(_)
SumDailyTx(keys) ==
    IF keys = {} THEN 0
    ELSE LET k == CHOOSE x \in keys : TRUE
         IN daily[k].tx_bytes + SumDailyTx(keys \ {k})
MaxOf(S) == IF S = {} THEN 0 ELSE CHOOSE m \in S : \A x \in S : x <= m

\* C18: the reply to get_historical_stats{port, start_date, end_date} holds
\* exactly the daily_stats rows of the port with start_date <= date <=
\* end_date, each once, in ascending date order and with the row's values;
\* total_rx and total_tx are the sums of the rows' rx_bytes and tx_bytes,
\* total_bytes is their sum, and the peaks are the maxima of the rows'
\* peaks, 0 when there is no row.
C18_HistoricalRange ==
    [][\A w \in Workers :
          LET req == wline[w]
              reply == written'[w][Len(written'[w])]
              res == reply.result[1]
              rows == res.DailyStats
              keys == RowsInRange(req.params.port, req.params.startDate,
                                  req.params.endDate)
          IN (/\ wpc[w] = "handle" /\ wpc'[w] # "handle"
              /\ req.json /\ req.method = "get_historical_stats"
              /\ Decoded(req.params))
             => /\ IsSuccess(reply)
                /\ res.Port = req.params.port
                /\ res.StartDate = req.params.startDate
                /\ res.EndDate = req.params.endDate
                /\ Len(rows) = Cardinality(keys)
                /\ {<<req.params.port, rows[i].Date>> : i \in 1..Len(rows)} = keys
                /\ \A i, j \in 1..Len(rows) : i < j => rows[i].Date < rows[j].Date
                /\ \A i \in 1..Len(rows) :
                      LET row == daily[<<req.params.port, rows[i].Date>>]
                      IN /\ rows[i].RxBytes = row.rx_bytes
                         /\ rows[i].TxBytes = row.tx_bytes
                         /\ rows[i].RxPackets = row.rx_packets
                         /\ rows[i].TxPackets = row.tx_packets
                         /\ rows[i].Connections = row.connections
                         /\ rows[i].PeakRxRate = row.peak_rx_rate
                         /\ rows[i].PeakTxRate = row.peak_tx_rate
                /\ res.TotalRx = SumDailyRx(keys)
                /\ res.TotalTx = SumDailyTx(keys)
                /\ res.TotalBytes = res.TotalRx + res.TotalTx
                /\ res.PeakRxRate = MaxOf({daily[k].peak_rx_rate : k \in keys})
                /\ res.PeakTxRate = MaxOf({daily[k].peak_tx_rate : k \in keys})]_vars

\* three days are stored; one reply holds the first two in order, one only
\* the second (start = end), and one, for an inverted range, none
C18_Witness ==
    /\ DOMAIN daily = {<<5000, 1>>, <<5000, 2>>, <<5000, 3>>, <<7000, 2>>}
    /\ daily[<<5000, 1>>] = DailyRow(1000, 0, 10, 0)
    /\ daily[<<5000, 2>>] = DailyRow(2000, 1500, 5, 7)
    /\ Len(written[1]) = 3
    /\ read[1][1].params = HistoricalParams(5000, 1, 2)
    /\ read[1][2].params = HistoricalParams(5000, 2, 2)
    /\ read[1][3].params = HistoricalParams(5000, 2, 1)
    /\ Len(written[1][1].result[1].DailyStats) = 2
    /\ written[1][1].result[1].DailyStats[1].Date = 1
    /\ written[1][1].result[1].DailyStats[2].Date = 2
    /\ written[1][1].result[1].TotalRx = 3000
    /\ written[1][1].result[1].TotalBytes = 4500
    /\ written[1][1].result[1].PeakRxRate = 10
    /\ written[1][1].result[1].PeakTxRate = 7
    /\ Len(written[1][2].result[1].DailyStats) = 1
    /\ written[1][3].result[1].DailyStats = << >>
    /\ written[1][3].result[1].TotalBytes = 0
    /\ written[1][3].result[1].PeakRxRate = 0

\* C19: a DeleteOldData(k) that returns without error at instant T leaves
\* no hourly_stats row with a timestamp before T - k days and no
\* daily_stats row with a date before the date of T - k days, and leaves
\* every other row in place with its values.
C19_Retention ==
    [][(cleanups' # cleanups /\ failures' = failures /\ DbOpen)
        => LET T == now
               cutoffTs == (T - RetentionDays * 86400000) \div 1000
               cutoffDate == (T - RetentionDays * 86400000) \div 86400000
           IN /\ \A k \in DOMAIN hourly' : k[2] >= cutoffTs
              /\ \A k \in DOMAIN daily' : k[2] >= cutoffDate
              /\ \A k \in DOMAIN hourly :
                    k[2] >= cutoffTs => k \in DOMAIN hourly' /\ hourly'[k] = hourly[k]
              /\ \A k \in DOMAIN daily :
                    k[2] >= cutoffDate => k \in DOMAIN daily' /\ daily'[k] = daily[k]
              /\ DOMAIN hourly' \subseteq DOMAIN hourly
              /\ DOMAIN daily' \subseteq DOMAIN daily]_vars

\* a cleanup without error has removed the hourly and the daily row of the
\* first day and kept those of the third
C19_Witness ==
    /\ cleanups = 1
    /\ failures = 0
    /\ now = 2 * DayMs + 1000
    /\ <<5000, 0>> \in lossy
    /\ DOMAIN hourly = {<<5000, 172800>>}
    /\ DOMAIN daily = {<<5000, 2>>}
    /\ hourly[<<5000, 172800>>].rx_bytes + hourly[<<5000, 172800>>].tx_bytes > 0

\* days from 1 January 2023 to a civil date
RECURSIVE DaysBeforeYear(_)
DaysBeforeYear(y) ==
    IF y <= 2023 THEN 0
    ELSE DaysBeforeYear(y - 1) + (IF IsLeap(y - 1) THEN 366 ELSE 365)
RECURSIVE DaysBeforeMonth(_, _)
DaysBeforeMonth(y, m) ==
    IF m = 1 THEN 0 ELSE DaysBeforeMonth(y, m - 1) + DaysIn(y, m - 1)
DayNumber(c) == DaysBeforeYear(c.year) + DaysBeforeMonth(c.year, c.month) + c.day
\* seconds from 1 January 2023 to a civil instant
Instant(c) == DayNumber(c) * 86400 + c.sec

C20_Examples ==
    /\ GetBillingCycleDates(15, Civil(2025, 1, 20, 43200))
         = [start |-> Civil(2025, 1, 15, 0), end |-> Civil(2025, 2, 14, 86399)]
    /\ GetBillingCycleDates(1, Civil(2025, 1, 15, 43200))
         = [start |-> Civil(2025, 1, 1, 0), end |-> Civil(2025, 1, 31, 86399)]
    /\ GetBillingCycleDates(30, Civil(2025, 1, 15, 43200))
         = GetBillingCycleDates(1, Civil(2025, 1, 15, 43200))
    /\ GetBillingCycleDates(1, Civil(2024, 2, 29, 43200))
         = [start |-> Civil(2024, 2, 1, 0), end |-> Civil(2024, 2, 29, 86399)]
    /\ GetBillingCycleDates(28, Civil(2024, 12, 31, 86399))
         = [start |-> Civil(2024, 12, 28, 0), end |-> Civil(2025, 1, 27, 86399)]

\* a civil date the calendar has
ValidDate(c) ==
    /\ c.month \in 1..12
    /\ c.day \in 1..DaysIn(c.year, c.month)

\* C21: GetLastNDays(N, reference) with N >= 1 returns end = reference and
\* start = 00:00:00 of the date N - 1 days before the reference's date, so
\* the range holds exactly N calendar dates, the last of them the
\* reference's.
C21_LastNDays ==
    (billingPc = "returned" /\ nDays >= 1) =>
        /\ lastN.end = reference
        /\ ValidDate(lastN.start)
        /\ lastN.start.sec = 0
        /\ DayNumber(lastN.start) = DayNumber(reference) - (nDays - 1)
        /\ DayNumber(lastN.end) - DayNumber(lastN.start) + 1 = nDays
        /\ Instant(lastN.start) <= Instant(lastN.end)

\* the last 7 days at 2025-01-15 14:30 start on 2025-01-09 00:00
C21_Witness ==
    /\ billingPc = "returned"
    /\ nDays = 7
    /\ reference = Civil(2025, 1, 15, 52200)
    /\ lastN = [start |-> Civil(2025, 1, 9, 0), end |-> Civil(2025, 1, 15, 52200)]

\* the retention the operator asked for: the flag's value when the flag is
\* given, else the value of the loaded config file; 0 stands for none
RequestedRetention ==
    IF flagRetentionDays # 0 THEN flagRetentionDays
    ELSE IF fileLoaded THEN cfg.RetentionDays ELSE 0

\* C22: daemon.Run is called only when the ports in effect are at least one
\* and all within 1..65535, and the retention asked for by the flag or the
\* config file, if any, is within 1..365.
C22_RefusesInvalid ==
    startPc = "run" =>
        /\ Len(cfg.Ports) > 0
        /\ \A i \in 1..Len(cfg.Ports) : cfg.Ports[i] \in 1..65535
        /\ RequestedRetention = 0 \/ RequestedRetention \in 1..365

\* the checks that do refuse: the ports and the retention in effect
C22_EffectiveValid ==
    startPc = "run" =>
        /\ Len(cfg.Ports) > 0
        /\ \A i \in 1..Len(cfg.Ports) : cfg.Ports[i] \in 1..65535
        /\ cfg.RetentionDays \in 1..365

(* ---------------------------------------------------------------------- *)
(* Kernel probe, one instruction at a time: properties                     *)
(* ---------------------------------------------------------------------- *)
\* the port the hook selected: sport when is_target_port(sport) held, else
\* dport when is_target_port(dport) held, else none (0)
Selected(h) ==
    IF h.sportHit THEN h.ck.sport ELSE IF h.dportHit THEN h.ck.dport ELSE 0

\* the hook has gone past get_port_stats and the two adds after it
PastPortAdds(h) ==
    h.pc \in {"ktime", "cs_lookup", "cs_add", "cs_store", "cs_update",
              "add_connections", "returned"} /\ h.target # 0

\* C23: an event whose sport or dport is a monitored port adds to exactly
\* one port_stats_map row, the sport's when the sport is monitored and else
\* the dport's; an event with neither adds to none.
C23_SelectionPolicy ==
    \A c \in DOMAIN hook :
        hook[c].pc = "returned" =>
            hook[c].rows = (IF Selected(hook[c]) = 0 THEN {} ELSE {Selected(hook[c])})

\* what holds of the selection: never a row other than the selected one,
\* never two rows
C23_OnlySelected ==
    \A c \in DOMAIN hook :
        /\ hook[c].rows \subseteq ({Selected(hook[c])} \ {0})
        /\ (hook[c].ps /\ PastPortAdds(hook[c]) => hook[c].rows = {Selected(hook[c])})

\* C24: the connections counter of a port never exceeds the number of
\* distinct keys put into conn_stats_map as new for that port.
C24_ConnectionsBounded ==
    \A p \in DOMAIN portStatsMap :
        p \in DOMAIN inserted
        /\ portStatsMap[p].connections <= Cardinality(inserted[p])

\* C25: the start_ns of a conn_stats_map row never changes once the row is
\* there.
C25_StartNsStable ==
    [][\A ck \in DOMAIN connRows :
          ck \in DOMAIN connRows' /\ connRows'[ck].start_ns = connRows[ck].start_ns]_vars

\* C26: the last_update_ns of a conn_stats_map row never decreases.
C26_LastUpdateMonotone ==
    [][\A ck \in DOMAIN connRows :
          ck \in DOMAIN connRows'
          /\ connRows'[ck].last_update_ns >= connRows[ck].last_update_ns]_vars

\* C27: when the insert of a new key into conn_stats_map fails, the event
\* has still been added to the row of its port.
C27_FullStillCounts ==
    \A c \in DOMAIN hook :
        hook[c].insertFailed => hook[c].rows = {hook[c].target}

\* the same for the events whose port has a row
C27_CountsWhenRow ==
    \A c \in DOMAIN hook :
        hook[c].insertFailed /\ hook[c].ps => hook[c].rows = {hook[c].target}

\* C28: an event whose selected port is monitored finds or creates the
\* port's row and is added to it; port_stats_map never holds more rows than
\* it has entries.
C28_RowAlwaysFound ==
    /\ Cardinality(DOMAIN portStatsMap) <= PortMaxEntries
    /\ \A c \in DOMAIN hook :
          PastPortAdds(hook[c]) /\ hook[c].target \in targetPorts =>
              hook[c].ps /\ hook[c].target \in hook[c].rows

\* C29: every counter of a port_stats_map row is the sum over the events
\* added to the row: bytes the sum of their sizes, packets their number,
\* in each direction.
C29_NoLostUpdates ==
    \A p \in DOMAIN portStatsMap :
        /\ p \in DOMAIN credited
        /\ portStatsMap[p].tx_bytes = credited[p].tx_bytes
        /\ portStatsMap[p].tx_packets = credited[p].tx_packets
        /\ portStatsMap[p].rx_bytes = credited[p].rx_bytes
        /\ portStatsMap[p].rx_packets = credited[p].rx_packets

\* two invocations found the row absent, both went through the insert, and
\* both have added a send of 1500 bytes to it
C29_Witness ==
    /\ \A c \in Cpus : c \in DOMAIN hook /\ hook[c].psMiss /\ hook[c].pc = "returned"
                         /\ hook[c].kind = "send" /\ hook[c].target = 5000
    /\ 5000 \in DOMAIN portStatsMap
    /\ portStatsMap[5000].tx_packets = 2
    /\ portStatsMap[5000].tx_bytes = 3000

(* ---------------------------------------------------------------------- *)
(* The collector's samples and their readers                               *)
(* ---------------------------------------------------------------------- *)
\* C30: every field a reader sees of a port comes from one and the same
\* collect, and the object a reader was handed is never modified afterwards:
\* what GetStats returned is, field by field, what the worker reads, also
\* across later ticks; what GetAllStats copied is one tick's sample per port.
C30_SnapshotConsistent ==
    LET rd == reader["worker"]
    IN /\ rd.pc \in {"reading", "done"} => Deref(rd.ref, rd.port) = rd.first
       /\ \A i \in 1..Len(rd.got) :
             /\ rd.got[i].tick = rd.first.tick
             /\ rd.got[i].v = rd.first.val[SampleFields[i]]
       /\ \A p \in DOMAIN reader["aggregator"].copy :
             /\ reader["aggregator"].copy[p].val.Port = p
             /\ reader["aggregator"].copy[p].tick \in 1..ticks

\* the worker has read all eight fields of a published sample while the
\* collector ticked in between and published another sample for the port
C30_Witness ==
    LET rd == reader["worker"]
    IN /\ rd.pc = "done"
       /\ Len(rd.got) = Len(SampleFields)
       /\ rd.ref # NoRef
       /\ rd.got[1].at < rd.got[Len(SampleFields)].at
       /\ rd.port \in DOMAIN ratesRef
       /\ ratesRef[rd.port] # rd.ref
       /\ heap[ratesRef[rd.port]].val # rd.first.val

(* ---------------------------------------------------------------------- *)
(* The collector's rates                                                   *)
(* ---------------------------------------------------------------------- *)
\* rate r is exactly delta bytes in elapsedMs milliseconds
IsRate(r, delta, elapsedMs) ==
    /\ r.ms > 0
    /\ r.num = delta
    /\ delta # 0 => r.ms = elapsedMs

\* C31: a successful collect publishes rate 0 for every port when it is the
\* first sample, and for a port that the previous sample did not hold; for
\* a port of both samples whose rx_bytes (tx_bytes) did not decrease,
\* rx_rate (tx_rate) is the growth of the counter over the time between the
\* two samples.
C31_RateDerivation ==
    [][(ticks' = ticks + 1 /\ LoaderOpen) =>
         \A p \in DOMAIN portStatsMap :
            /\ p \in DOMAIN rates'
            /\ (lastTime = ZeroTime \/ p \notin DOMAIN lastStats) =>
                  rates'[p].RxRate = ZeroRate /\ rates'[p].TxRate = ZeroRate
            /\ (lastTime # ZeroTime /\ p \in DOMAIN lastStats) =>
                  /\ portStatsMap[p].rx_bytes >= lastStats[p].rx_bytes =>
                        IsRate(rates'[p].RxRate,
                               portStatsMap[p].rx_bytes - lastStats[p].rx_bytes,
                               now' - lastTime)
                  /\ portStatsMap[p].tx_bytes >= lastStats[p].tx_bytes =>
                        IsRate(rates'[p].TxRate,
                               portStatsMap[p].tx_bytes - lastStats[p].tx_bytes,
                               now' - lastTime)]_vars

\* the third sample: the port was in the second one too, 2000 bytes were
\* received in the second between them and 2000 bytes/s is published
C31_Witness ==
    /\ ticks = 3
    /\ 5000 \in DOMAIN rates
    /\ now = lastTime
    /\ rates[5000].RxBytes = 3000
    /\ rates[5000].RxRate = [num |-> 2000, ms |-> 1000]
    /\ rates[5000].TxRate = ZeroRate

(* ---------------------------------------------------------------------- *)
(* The daily peak                                                          *)
(* ---------------------------------------------------------------------- *)
\* a step of the aggregator that meets, for every port, the counters its
\* previous pass met
Reapplied ==
    /\ events' = events
    /\ ticks' = ticks
    /\ \A p \in DOMAIN rates :
          p \in DOMAIN lastPass /\ lastPass[p].cur = Counters(rates[p])

\* the tracker of port p is new, or of another date than before
Restarted(p) ==
    /\ p \in DOMAIN peakRates'
    /\ p \notin DOMAIN peakRates \/ peakRates[p].date # peakRates'[p].date

\* C32: a pass over samples that were already applied leaves the stored
\* daily peaks as they are; a stored daily peak never decreases; and when
\* the local date changes the tracker of a port restarts from 0, so that it
\* holds the rate of the sample being applied and nothing of the date
\* before, and so does a row the pass creates for the new date.
C32_PeakIdempotence ==
    [][/\ \A k \in (DOMAIN daily) \cap (DOMAIN daily') :
             /\ daily'[k].peak_rx_rate >= daily[k].peak_rx_rate
             /\ daily'[k].peak_tx_rate >= daily[k].peak_tx_rate
       /\ Reapplied =>
             /\ DOMAIN daily' = DOMAIN daily
             /\ \A k \in DOMAIN daily :
                   /\ daily'[k].peak_rx_rate = daily[k].peak_rx_rate
                   /\ daily'[k].peak_tx_rate = daily[k].peak_tx_rate
       /\ \A p \in DOMAIN rates :
             Restarted(p) =>
                /\ peakRates'[p].date = Format(now)
                /\ peakRates'[p].peakRxRate \in ToUint64(rates[p].RxRate)
                /\ peakRates'[p].peakTxRate \in ToUint64(rates[p].TxRate)
                /\ (<<p, Format(now)>> \in (DOMAIN daily') \ (DOMAIN daily)) =>
                      /\ daily'[<<p, Format(now)>>].peak_rx_rate
                            = peakRates'[p].peakRxRate
                      /\ daily'[<<p, Format(now)>>].peak_tx_rate
                            = peakRates'[p].peakTxRate]_vars

\* 1000 bytes/s were stored as the peak of date 0; on date 1 the port was
\* persisted with a rate below 1 byte/s, and the same sample was then met
\* again by a further pass
C32_Witness ==
    /\ <<5000, 0>> \in DOMAIN daily
    /\ <<5000, 1>> \in DOMAIN daily
    /\ daily[<<5000, 0>>].peak_rx_rate = 1000
    /\ daily[<<5000, 1>>].peak_rx_rate = 0
    /\ daily[<<5000, 1>>].rx_bytes = 1000
    /\ peakRates[5000] = [date |-> 1, peakRxRate |-> 0, peakTxRate |-> 0]
    /\ lastPass[5000].skipped
    /\ lastPass[5000].hadShadow
    /\ lastPass[5000].shadow = lastPass[5000].cur

(* ---------------------------------------------------------------------- *)
(* Server.Close and the acceptor                                           *)
(* ---------------------------------------------------------------------- *)
NextClose ==
    \/ Accept
    \/ AcceptClosed
    \/ Register
    \/ \E conn \in Conns : handleClientReturn(conn)
    \/ Cancel
    \/ WatcherClose
    \/ DaemonClose
    \/ RunLoaderClose
    \/ RunDbClose
    \/ ProcessExit
    \/ CollectorStop
    \/ RetentionStop
    \/ AggFinal

SpecClose == Init /\ [][NextClose]_vars

\* C40: the acceptor does not fault when Close runs between its Accept and
\* its registration of the connection.
C40_AcceptorSafe == accPc # "panic"

\* the scheduler runs every goroutine that can take a step, and a select
\* whose ctx.Done() case is ready is not passed over forever
SpecCloseLive ==
    /\ SpecClose
    /\ WF_vars(AcceptClosed)
    /\ WF_vars(Register)
    /\ \A conn \in Conns : WF_vars(conn \notin openConns /\ handleClientReturn(conn))
    /\ WF_vars(WatcherClose)
    /\ WF_vars(DaemonClose)
    /\ WF_vars(RunLoaderClose)
    /\ WF_vars(RunDbClose)
    /\ WF_vars(ProcessExit)
    /\ WF_vars(CollectorStop)
    /\ WF_vars(RetentionStop)
    /\ WF_vars(AggFinal)

\* the three loops have returned (or the process has ended), the listener
\* is closed and no accepted connection is open
Stopped ==
    /\ colPc = "stopped" \/ ~Alive
    /\ aggPc = "stopped" \/ ~Alive
    /\ retPc = "stopped" \/ ~Alive
    /\ listener = "closed"
    /\ openConns = {}

\* C33: after the cancellation signal the collector, aggregator and
\* retention loops end, the listener and every client connection are
\* closed, a connection accepted while Close runs included, and nothing
\* fails on the way (Close running twice included).
C33_CancellationCompletes == cancelled ~> (Stopped /\ accPc # "panic")

\* cancellation completes in every run in which the acceptor does not meet
\* the nil table
C33_StopsUnlessFault == cancelled ~> (Stopped \/ accPc = "panic")

\* Close run by the watcher and by Daemon.Run alike, with nothing failing
C33_ClosedTwice ==
    (watchPc = "done" /\ mainPc # "waiting") =>
        (listener = "closed" /\ ~clients.made /\ clients.conns = {})

(* ---------------------------------------------------------------------- *)
(* Conservation of bytes                                                   *)
(* ---------------------------------------------------------------------- *)
RECURSIVE SumHourlyTx(_)
SumHourlyTx(keys) ==
    IF keys = {} THEN 0
    ELSE LET k == CHOOSE x \in keys : TRUE
         IN hourly[k].tx_bytes + SumHourlyTx(keys \ {k})

HourlyKeys(port) == {k \in DOMAIN hourly : k[1] = port}
DailyKeys(port) == {k \in DOMAIN daily : k[1] = port}
\* the shadow of a port, all zero while the aggregator holds none
ShadowOf(port) ==
    IF port \in DOMAIN lastPersist THEN lastPersist[port] ELSE ZeroPortStats

\* C34: with counters that only grow, a store that does not fail and no
\* retention deletion, after every persist pass the rx_bytes of the daily
\* rows of a port summed over all dates, the rx_bytes of its hourly rows
\* summed over all hours, the shadow's rx_bytes and the rx_bytes of the
\* snapshot the latest pass met are the same number; likewise tx_bytes.
C34_Conservation ==
    \A p \in DOMAIN lastPass :
        /\ SumDailyRx(DailyKeys(p)) = SumHourlyRx(HourlyKeys(p))
        /\ SumHourlyRx(HourlyKeys(p)) = ShadowOf(p).rx_bytes
        /\ ShadowOf(p).rx_bytes = lastPass[p].cur.rx_bytes
        /\ SumDailyTx(DailyKeys(p)) = SumHourlyTx(HourlyKeys(p))
        /\ SumHourlyTx(HourlyKeys(p)) = ShadowOf(p).tx_bytes
        /\ ShadowOf(p).tx_bytes = lastPass[p].cur.tx_bytes

\* 2000 bytes received and persisted on one date, 2000 more received and
\* persisted on the next: two daily rows and two hourly rows
C34_Witness ==
    /\ 5000 \in DOMAIN lastPass
    /\ ~lastPass[5000].skipped
    /\ lastPass[5000].hadShadow
    /\ Cardinality(HourlyKeys(5000)) = 2
    /\ Cardinality(DailyKeys(5000)) = 2
    /\ SumDailyRx(DailyKeys(5000)) = 4000
    /\ lastPersist[5000].rx_bytes = 4000
    /\ rates[5000].RxBytes = 4000

(* ---------------------------------------------------------------------- *)
(* The shadow after a counter reset                                        *)
(* ---------------------------------------------------------------------- *)
\* the latest pass of port p met counters below its shadow and computed rx
\* and tx deltas of 0
MetReset(p) ==
    /\ lastPass[p].hadShadow
    /\ \/ lastPass[p].cur.rx_bytes < lastPass[p].shadow.rx_bytes
       \/ lastPass[p].cur.tx_bytes < lastPass[p].shadow.tx_bytes
    /\ lastPass[p].delta.rx_bytes = 0
    /\ lastPass[p].delta.tx_bytes = 0

\* C35: a pass that meets counters below the shadow, and so computes rx and
\* tx deltas of 0, leaves the shadow equal to the counters it met, so that
\* later passes add every byte counted after the reset.
C35_ShadowFollowsReset ==
    \A p \in DOMAIN lastPass :
        MetReset(p) => lastPersist[p] = lastPass[p].cur

(* ---------------------------------------------------------------------- *)
(* Persist passes that overlap: properties                                 *)
(* ---------------------------------------------------------------------- *)
NextFlush ==
    \/ \E ck \in ConnKeys, size \in SendSizes : trace_tcp_sendmsg(ck, size)
    \/ \E ck \in ConnKeys, copied \in StoreRecvSizes : trace_tcp_cleanup_rbuf(ck, copied)
    \/ \E d \in ResetSteps : collect(d)
    \/ \E who \in Passes : readSnapshot(who)
    \/ \E who \in Passes : lockedPass(who)

SpecFlush == Init /\ [][NextFlush]_vars

\* C36: with counters that only grow, passes that overlap (each reads the
\* snapshot before it takes the lock, so the pass that read first may run
\* second) count no byte twice: the rx_bytes stored for a port never exceed
\* the largest rx_bytes a pass has read; and the shadow's rx_bytes and
\* tx_bytes never decrease.
C36_NoDoubleCount ==
    [][/\ \A p \in DOMAIN lastPersist' :
             /\ SumHourlyRx(HourlyKeys(p))' <= maxRead'[p]
             /\ SumDailyRx(DailyKeys(p))' <= maxRead'[p]
       /\ \A p \in DOMAIN lastPersist :
             /\ lastPersist'[p].rx_bytes >= lastPersist[p].rx_bytes
             /\ lastPersist'[p].tx_bytes >= lastPersist[p].tx_bytes]_vars

\* a pass that read 1000 bytes ran after a pass that had read 2000 and
\* stored them: the late pass skipped the port
C36_Witness ==
    /\ 5000 \in DOMAIN lastPass
    /\ lastPass[5000].skipped
    /\ lastPass[5000].hadShadow
    /\ lastPass[5000].cur.rx_bytes = 1000
    /\ lastPass[5000].shadow.rx_bytes = 2000
    /\ lastPersist[5000].rx_bytes = 2000
    /\ SumHourlyRx(HourlyKeys(5000)) = 2000
    /\ maxRead[5000] = 2000

(* ---------------------------------------------------------------------- *)
(* add_port when the kernel insertion fails                                *)
(* ---------------------------------------------------------------------- *)
\* One client adding ports to a target_ports map that has room for one
\* more, while the daemon may be shutting down.
FullLines ==
    {Request(1, "add_port", PortParams(p)) : p \in {6000, 7000}}
    \cup {Request(1, "list_ports", NoParams)}

NextFull ==
    \/ \E line \in FullLines : Scan(1, line)
    \/ handleLine(1)
    \/ storePorts(1)
    \/ Cancel
    \/ RunServerClose
    \/ RunLoaderClose

SpecFull == Init /\ [][NextFull]_vars

\* TargetPorts.Put cannot succeed: no objects, or no room for a new key
InsertFails(port) ==
    \/ ~LoaderOpen
    \/ port \notin targetPorts /\ Cardinality(targetPorts) >= TargetMaxEntries
\* the text of the error AddPort returns then
InsertError(port) ==
    IF ~LoaderOpen THEN "eBPF programs not loaded"
    ELSE "adding port to target_ports map"

\* the ports whose add_port was answered with success among the first n
\* requests of worker w
AddedBefore(w, n) ==
    {read[w][i].params.port : i \in {j \in 1..n :
        j <= Len(written[w]) /\ read[w][j].method = "add_port"
        /\ IsSuccess(written[w][j])}}

\* C39: when the kernel insertion of an add_port fails, the reply is the
\* error -32603 with the text of the error, the monitored-ports list and
\* the kernel set are as before, and a list_ports answered later names only
\* ports of the configuration and ports added with success.
C39_FailedAddLeavesList ==
    [][\A w \in Workers :
          LET req == wline[w]
              last == written'[w][Len(written'[w])]
          IN /\ (/\ wpc[w] = "handle"
                 /\ wpc'[w] # "handle"
                 /\ req.json
                 /\ req.method = "add_port"
                 /\ Decoded(req.params)
                 /\ InsertFails(req.params.port))
                => /\ wpc'[w] = "scan"
                   /\ configPorts' = configPorts
                   /\ targetPorts' = targetPorts
                   /\ Len(written'[w]) = Len(written[w]) + 1
                   /\ last.result = << >>
                   /\ last.error = <<[code |-> ErrCodeInternal,
                                      message |-> InsertError(req.params.port)]>>
             /\ \A i \in 1..Len(written'[w]) :
                   (read'[w][i].method = "list_ports" /\ IsSuccess(written'[w][i]))
                   => Range(written'[w][i].result[1].Ports)
                         \subseteq (Range(ConfigList) \cup AddedBefore(w, i)')]_vars

\* 6000 added, 7000 refused by the full map, and the list then read
C39_Witness ==
    /\ Len(written[1]) = 3
    /\ read[1][1] = Request(1, "add_port", PortParams(6000))
    /\ read[1][2] = Request(1, "add_port", PortParams(7000))
    /\ read[1][3] = Request(1, "list_ports", NoParams)
    /\ IsSuccess(written[1][1])
    /\ written[1][2].error = <<[code |-> ErrCodeInternal,
                                message |-> "adding port to target_ports map"]>>
    /\ written[1][3].result[1].Ports = <<5000, 6000>>
    /\ targetPorts = {5000, 6000}

\* an add_port answered after the loader was closed
C39_ClosedLoader ==
    /\ Len(written[1]) = 1
    /\ read[1][1] = Request(1, "add_port", PortParams(6000))
    /\ written[1][1].error = <<[code |-> ErrCodeInternal,
                                message |-> "eBPF programs not loaded"]>>
    /\ configPorts = ConfigList

(* ---------------------------------------------------------------------- *)
(* The monitored-ports list and the kernel set                             *)
(* ---------------------------------------------------------------------- *)
\* the entries of a list are ports and no port is entered twice
WellFormed(list) ==
    \A i \in 1..Len(list) :
        /\ list[i] \in 1..65535
        /\ \A j \in 1..Len(list) : list[j] = list[i] => j = i

\* C38: every monitored-ports list a list_ports reply carries holds ports
\* of 1..65535 only, and each of them once.
C38_ListWellFormed ==
    \A w \in Workers :
        \A i \in 1..Len(written[w]) :
            (read[w][i].method = "list_ports" /\ IsSuccess(written[w][i]))
            => WellFormed(written[w][i].result[1].Ports)

\* Two clients, each on its own connection, adding and removing one port.
AddRemoveLines ==
    {Request(1, m, PortParams(6000)) : m \in {"add_port", "remove_port"}}

NextAddRemove ==
    \/ \E w \in Workers, line \in AddRemoveLines : Scan(w, line)
    \/ \E w \in Workers : handleLine(w)
    \/ \E w \in Workers : storePorts(w)

SpecAddRemove == Init /\ [][NextAddRemove]_vars

\* no worker is between the reading of a request and its reply
NoHandlerInProgress == \A w \in Workers : wpc[w] \in {"scan", "closed"}

\* C37: whenever no add_port or remove_port handler is in progress, the
\* ports of the monitored-ports list are the keys of the kernel's
\* target_ports map.
C37_ListMatchesKernel ==
    NoHandlerInProgress => Range(configPorts) = targetPorts

============================================================================
